---- MODULE Spec2Model ----
(***************************************************************************)
(* Model of the acrnprobe sender pipeline                                  *)
(* (tools/acrn-crashlog/acrnprobe/sender.c): the crashlog (local archive)  *)
(* and telemd (telemetry) senders, their per-event-type handlers, the log  *)
(* getters and the guest (VM) event handlers.                              *)
(*                                                                         *)
(* Every handler is a pure operator that maps its inputs and the answers   *)
(* of the external helpers it calls (env) to the ordered trace of external *)
(* calls it makes, the files it leaves under the crashlog output           *)
(* directory and its return value.  One action per handler applies the     *)
(* operator to the program state.                                          *)
(***************************************************************************)
EXTENDS Integers, Sequences, FiniteSets, TLC

VARIABLES
    senders,    \* conf: names of the configured senders
    e,          \* the event being dispatched (struct event_t)
    logget,     \* log->get of every log descriptor of conf
    fs,         \* paths that exist under the crashlog sender's outdir
    fs0,        \* fs as it was when the last handler was entered
    keyseq,     \* the durable counter behind generate_event_id
    calls,      \* external calls made by the last handler, in order
    fn,         \* name of the last handler that ran
    ret,        \* return value of the last guest-event handler
    done,       \* senders that have processed event e
    pass,       \* senders whose refresh_vm_history scan is in progress
    cursor,     \* per sender: number of guest log lines already HANDLED
    line,       \* the guest log line handed to the last guest-event handler
    hours,      \* the uptime hours get_uptime_string last read
    loop_uptime_event,  \* the static counter of telemd_send_uptime
    srcfile,    \* the lines of the source file handed to get_log_file
    desfile,    \* the artifact get_log_file wrote, if any
    loglines  \* log->lines of the descriptor handed to get_log_file

vars == <<senders, e, logget, fs, fs0, keyseq, calls, fn, ret, done, pass,
          cursor, line, hours, loop_uptime_event, srcfile, desfile,
          loglines>>

----------------------------------------------------------------------------
(* Bounds of the model *)

\* most real entries a guest log directory holds
MaxEntries == 2
\* most files a config-format pattern expands to
MaxFiles == 1
\* generate_event_id is called at most this many times in a run
MaxKeys == 2
\* most lines a source file has
MaxLines == 3
\* the uptime hours of a run of UPTIME events only stay at or below this
MaxUptime == 5
\* the uptime hours stay below this
MaxHours == 2

(* Program constants *)
CRASH_SEVERITY == 4
INFO_SEVERITY == 2

VMEVT_HANDLED == "VMEVT_HANDLED"
VMEVT_DEFER == "VMEVT_DEFER"

NULL == "NULL"

----------------------------------------------------------------------------
(* Values *)

\* a directory made by generate_log_dir; NoDir is the NULL char *
NoDir == [mode |-> "", key |-> 0]
Dir(mode, key) == [mode |-> mode, key |-> key]

\* a path under the outdir: <dir>/<name>[.<idx>][_<uptime>]
NoPath == [mode |-> "", key |-> 0, name |-> "", idx |-> 0, ts |-> FALSE]
Path(dir, name, idx, ts) ==
    [mode |-> dir.mode, key |-> dir.key, name |-> name, idx |-> idx, ts |-> ts]
\* the directory itself
DirPath(dir) == Path(dir, ".", 0, FALSE)
InDir(p, dir) == p.mode = dir.mode /\ p.key = dir.key /\ p.name # "."

\* one external call: operation, string argument, class, number, result, path
Call(op, a, c, n, r, p) ==
    [op |-> op, a |-> a, c |-> c, n |-> n, r |-> r, p |-> p]

\* free(what), what being a variable of the handler (n: its index in an
\* array)
Free(what, n) == Call("free", what, "", n, "", NoPath)

Bool(b) == IF b THEN "true" ELSE "false"
OkFail(b) == IF b THEN "ok" ELSE "fail"

RECURSIVE Flatten(_)
Flatten(ss) == IF ss = <<>> THEN <<>> ELSE Head(ss) \o Flatten(Tail(ss))

\* number of calls of operation op in trace s
Ops(s, op) == Cardinality({i \in 1..Len(s) : s[i].op = op})
\* positions of the calls of operation op in trace s
At(s, op) == {i \in 1..Len(s) : s[i].op = op}

----------------------------------------------------------------------------
(* Configuration (conf), loaded once at startup *)

\* struct log_t: lines is the tail length string or NULL; fmt says whether
\* path is a config-format pattern (is_ac_filefmt)
conf_log == <<
    [name |-> "syslog", type |-> "file", lines |-> NULL, fmt |-> FALSE],
    [name |-> "aplog",  type |-> "file", lines |-> "2",  fmt |-> FALSE],
    [name |-> "trace",  type |-> "file", lines |-> NULL, fmt |-> TRUE],
    [name |-> "kmsg",   type |-> "node", lines |-> NULL, fmt |-> FALSE],
    [name |-> "ps",     type |-> "cmd",  lines |-> NULL, fmt |-> FALSE] >>

LogIds == 1..Len(conf_log)

\* struct crash_t: log is the ordered list of associated descriptors,
\* reclass the crashes the reclassify operation can answer (0 is NULL)
conf_crash == <<
    [name |-> "UNKNOWN",   trigger |-> "dir",  log |-> <<1, 2>>,
     reclass |-> {0, 1, 2}],
    [name |-> "JAVACRASH", trigger |-> "file", log |-> <<3>>,
     reclass |-> {0, 2}],
    [name |-> "IPANIC",    trigger |-> "file", log |-> <<>>,
     reclass |-> {0, 3}] >>

\* struct info_t
conf_info == <<
    [name |-> "BOOT_LOGS", log |-> <<4, 5>>],
    [name |-> "FIRMWARE",  log |-> <<>>] >>

\* struct vm_t
vm == [name |-> "VM1"]

to_collect_logs(cls) == cls.log # <<>>

get_sender_by_name(name) == name \in senders

atoi(s) ==
    CASE s = "1" -> 1
      [] s = "2" -> 2
      [] s = "3" -> 3
      [] s = "4" -> 4
      [] s = "-1" -> -1
      [] OTHER -> 0

----------------------------------------------------------------------------
(* Log collection: cal_log_filepath, get_log_by_type, crashlog_get_log *)

\* cal_log_filepath naming every destination file "log"
cal_log_filepath_fixed_name(log, idx, desdir, oom) ==
    IF oom THEN NoPath
    ELSE Path(desdir, "log", IF log.fmt THEN idx ELSE 0,
              log.type = "cmd" \/ log.lines # NULL)

\* the destination path, or NoPath for -1.  The name comes from the expanded
\* source file (idx > 0) for a pattern, else from log->name; a timestamp is
\* appended for a cmd log and for a log with lines set.
cal_log_filepath(log, idx, desdir, oom) ==
    IF oom THEN NoPath
    ELSE Path(desdir, log.name, IF log.fmt THEN idx ELSE 0,
              log.type = "cmd" \/ log.lines # NULL)

\* tail extraction when lines parses to a positive number, else whole file
get_log_file(tail_lines) ==
    IF tail_lines = NULL THEN "get_log_file_complete"
    ELSE IF atoi(tail_lines) > 0 THEN "get_log_file_tail"
    ELSE "get_log_file_complete"

\* a file is the sequence of its lines; an artifact exists or not
NoFile == [exists |-> FALSE, data |-> <<>>]
File(data) == [exists |-> TRUE, data |-> data]

Max(a, b) == IF a > b THEN a ELSE b
Min(a, b) == IF a < b THEN a ELSE b

\* the number of logical lines of a mapped file
mm_count_lines(mfile) == Len(mfile)

\* the file from the start of line n on (nothing when there is no line n)
mm_get_line(mfile, n) ==
    IF n \in 1..Len(mfile) THEN SubSeq(mfile, n, Len(mfile)) ELSE <<>>

\* overwrite_file(despath, start): the artifact holds what start points at
overwrite_file(start, ok) == IF ok THEN File(start) ELSE NoFile

\* do_copy_tail(srcpath, despath, 0): the whole source, verbatim
do_copy_tail(src, ok) == IF ok THEN File(src) ELSE NoFile

get_log_file_complete(src, ok) == do_copy_tail(src, ok)

\* get_log_file_tail starting one line early
get_log_file_tail_early(mfile, lines, ok) ==
    LET file_lines == mm_count_lines(mfile)
        start_line == Max(file_lines - lines, 0)
    IN  IF file_lines <= 0 THEN NoFile
        ELSE overwrite_file(mm_get_line(mfile, start_line), ok)

\* ok: mmap_file and overwrite_file succeed
get_log_file_tail(mfile, lines, ok) ==
    LET file_lines == mm_count_lines(mfile)
        start_line == Max(file_lines - lines, 0) + 1
    IN  IF file_lines <= 0 THEN NoFile
        ELSE overwrite_file(mm_get_line(mfile, start_line), ok)

\* the collection strategy a descriptor's type selects ("" for none)
get_log_by_type(log) ==
    CASE log.type = "file" -> get_log_file(log.lines)
      [] log.type = "node" -> "get_log_node"
      [] log.type = "cmd"  -> "get_log_cmd"
      [] OTHER -> ""

Strategies ==
    {"get_log_file_complete", "get_log_file_tail", "get_log_node",
     "get_log_cmd"}

\* answers of the helpers one crashlog_get_log invocation consults:
\* space (space_available), count (config_fmt_to_files), res[i] for file i:
\* "ok", "fail" (the copy failed), "oom" (cal_log_filepath failed) or, for
\* a file of a pattern, "invalid" (the expanded path holds no "/")
CollectOutcome == {"ok", "fail", "oom", "invalid"}
GetLogEnv(l) ==
    {[space |-> FALSE, count |-> 0, res |-> <<>>]} \cup
    UNION {{[space |-> TRUE, count |-> c, res |-> r] :
                r \in [1..(IF c > 0 THEN c ELSE 0) ->
                          IF conf_log[l].fmt THEN CollectOutcome
                          ELSE CollectOutcome \ {"invalid"}]} :
           c \in (IF conf_log[l].fmt THEN -1..MaxFiles ELSE {1})}

\* the outcome the environment holds for the i-th file of a descriptor
Res(res, i) == IF i \in 1..Len(res) THEN res[i] ELSE "ok"

\* space_available(crashlog->outdir, quota) as asked by caller for log l
\* (0: the handler's own check)
QuotaCheck(caller, l, space) ==
    Call("space_available", caller, "", l, Bool(space), NoPath)

\* hist_raise_infoerror("SPACE_FULL")
SpaceFull(caller, l) ==
    Call("hist_raise_infoerror", "SPACE_FULL", caller, l, "", NoPath)

\* one file of a descriptor: path computation, then the strategy
CollectOne(l, idx, desdir, out) ==
    LET log == conf_log[l]
        des == cal_log_filepath(log, idx, desdir, out = "oom")
    IN  IF des = NoPath
        THEN [calls |-> <<Call("cal_log_filepath", log.name, "", l, "fail",
                               NoPath)>>,
              files |-> {}]
        ELSE [calls |-> <<Call("cal_log_filepath", log.name, "", l, "ok", des)>>
                        \o (IF get_log_by_type(log) = "" THEN <<>>
                            ELSE <<Call(get_log_by_type(log), log.name, "", l,
                                        out, des)>>),
              files |-> IF out = "ok" /\ get_log_by_type(log) # ""
                        THEN {des} ELSE {}]

\* the part of crashlog_get_log after the quota check: the files of a
\* pattern one by one, or the descriptor's single source
Collect(l, desdir, env) ==
    LET log == conf_log[l]
        n == IF env.count > 0 THEN env.count ELSE 0
        one(i) == IF Res(env.res, i) = "invalid"
                  THEN [calls |-> <<>>, files |-> {}]
                  ELSE CollectOne(l, i, desdir, Res(env.res, i))
    IN  IF log.fmt
        THEN [calls |-> <<Call("config_fmt_to_files", log.name, "",
                               env.count, "", NoPath)>>
                        \o Flatten([i \in 1..n |-> one(i).calls]),
              files |-> UNION {one(i).files : i \in 1..n}]
        ELSE one(1)

\* the getter without the return that follows the SPACE_FULL report
crashlog_get_log_no_return(l, desdir, env) ==
    LET sp == QuotaCheck("crashlog_get_log", l, env.space)
        got == Collect(l, desdir, [env EXCEPT !.count = 1])
    IN  IF ~env.space
        THEN [calls |-> <<sp, SpaceFull("crashlog_get_log", l)>> \o got.calls,
              files |-> got.files]
        ELSE [calls |-> <<sp>> \o Collect(l, desdir, env).calls,
              files |-> Collect(l, desdir, env).files]

crashlog_get_log(l, desdir, env) ==
    LET sp == QuotaCheck("crashlog_get_log", l, env.space)
        got == Collect(l, desdir, env)
    IN  IF ~get_sender_by_name("crashlog")
        THEN [calls |-> <<>>, files |-> {}]
        ELSE IF ~env.space
        THEN [calls |-> <<sp, SpaceFull("crashlog_get_log", l)>>,
              files |-> {}]
        ELSE [calls |-> <<sp>> \o got.calls, files |-> got.files]

----------------------------------------------------------------------------
(* Telemetry submission: telemd_send_data, telemd_get_log *)

\* the step of one submission that fails ("ok": none)
TmOutcome(eventid) ==
    {"ok", "create", "payload", "send"} \cup
    (IF eventid # NULL THEN {"eventid"} ELSE {})

\* the outcome the environment holds for the i-th submission of a handler
Out(outs, i) == IF i \in 1..Len(outs) THEN outs[i] ELSE "ok"

Payload(text, path) == [text |-> text, path |-> path]

\* the submission leaving through fail, not free, when the payload is
\* rejected
telemd_send_data_leak(payload, eventid, severity, class, o) ==
    LET r(step) == IF o = step THEN "fail" ELSE "ok"
        create == Call("tm_create_record", "", class, severity, r("create"),
                       NoPath)
        setid == IF eventid # NULL
                 THEN <<Call("tm_set_event_id", eventid, class, 0,
                             r("eventid"), NoPath)>>
                 ELSE <<>>
        setpl == Call("tm_set_payload", payload.text, class, 0, r("payload"),
                      payload.path)
        send == Call("tm_send_record", "", class, 0, r("send"), NoPath)
        free == Call("tm_free_record", "", class, 0, "", NoPath)
    IN  IF o = "create" THEN [ret |-> -1, calls |-> <<create>>]
        ELSE IF eventid # NULL /\ o = "eventid"
        THEN [ret |-> -1, calls |-> <<create>> \o setid \o <<free>>]
        ELSE IF o = "payload"
        THEN [ret |-> -1, calls |-> <<create>> \o setid \o <<setpl>>]
        ELSE IF o = "send"
        THEN [ret |-> -1,
              calls |-> <<create>> \o setid \o <<setpl, send, free>>]
        ELSE [ret |-> 0,
              calls |-> <<create>> \o setid \o <<setpl, send, free>>]

telemd_send_data(payload, eventid, severity, class, o) ==
    LET r(step) == IF o = step THEN "fail" ELSE "ok"
        create == Call("tm_create_record", "", class, severity, r("create"),
                       NoPath)
        setid == IF eventid # NULL
                 THEN <<Call("tm_set_event_id", eventid, class, 0,
                             r("eventid"), NoPath)>>
                 ELSE <<>>
        setpl == Call("tm_set_payload", payload.text, class, 0, r("payload"),
                      payload.path)
        send == Call("tm_send_record", "", class, 0, r("send"), NoPath)
        free == Call("tm_free_record", "", class, 0, "", NoPath)
    IN  IF o = "create" THEN [ret |-> -1, calls |-> <<create>>]
        ELSE IF eventid # NULL /\ o = "eventid"
        THEN [ret |-> -1, calls |-> <<create>> \o setid \o <<free>>]
        ELSE IF o = "payload"
        THEN [ret |-> -1, calls |-> <<create>> \o setid \o <<setpl, free>>]
        ELSE IF o = "send"
        THEN [ret |-> -1,
              calls |-> <<create>> \o setid \o <<setpl, send, free>>]
        ELSE [ret |-> 0,
              calls |-> <<create>> \o setid \o <<setpl, send, free>>]

----------------------------------------------------------------------------
(* Key generation and the per-event directory (probeutils) *)

\* the key generate_event_id derives: the next value of the durable counter,
\* or 0 (NULL) when it fails
generate_event_id(seq, ok) == IF ok THEN seq + 1 ELSE 0

\* the directory generate_log_dir creates for a key, NoDir when it fails
generate_log_dir(mode, key, ok) == IF ok THEN Dir(mode, key) ELSE NoDir

\* the digest generate_eventid256 derives from a class, NULL when it fails
generate_eventid256(class, ok) == IF ok THEN "id:" \o class ELSE NULL

----------------------------------------------------------------------------
(* log->get(log, data) as called by the crashlog handlers: data is the    *)
(* destination directory.  Only crashlog_get_log takes a directory.       *)
LogGetDir(getter, l, dir, env) ==
    IF getter = "crashlog_get_log" THEN crashlog_get_log(l, dir, env)
    ELSE [calls |-> <<Call(getter, conf_log[l].name, "", l, "bad_data",
                           NoPath)>>,
          files |-> {}]

\* the getters run over the descriptors ls, stopping after the first one
\* that collects nothing
CollectAllUntilFailure(get, ls, dir, envs) ==
    LET one(i) == LogGetDir(get[ls[i]], ls[i], dir, envs[i])
        bad == {i \in 1..Len(ls) : one(i).files = {}}
        last == IF bad = {} THEN Len(ls)
                ELSE CHOOSE i \in bad : \A j \in bad : i <= j
    IN  [calls |-> Flatten([i \in 1..last |-> one(i).calls]),
         files |-> UNION {one(i).files : i \in 1..last}]

\* the getters run over the descriptors ls in declaration order
CollectAll(get, ls, dir, envs) ==
    [calls |-> Flatten([i \in 1..Len(ls) |->
                           LogGetDir(get[ls[i]], ls[i], dir, envs[i]).calls]),
     files |-> UNION {LogGetDir(get[ls[i]], ls[i], dir, envs[i]).files :
                         i \in 1..Len(ls)}]

\* the environments of the getters of the descriptors ls
GetLogEnvs(ls) ==
    {es \in [1..Len(ls) -> UNION {GetLogEnv(l) : l \in LogIds}] :
        \A i \in 1..Len(ls) : es[i] \in GetLogEnv(ls[i])}

----------------------------------------------------------------------------
(* crashlog_send_crash *)

\* env: oom (the asprintf that fails, or "none"), reclass (the crash the
\* reclassify operation answers, 0 for NULL), key / dir (generate_event_id /
\* generate_log_dir succeed), logs (the getters' environments), space (the
\* handler's own quota check), copy (the trigger file copy succeeds)
CE(oom, reclass, key, dir, logs, space, copy) ==
    [oom |-> oom, reclass |-> reclass, key |-> key, dir |-> dir,
     logs |-> logs, space |-> space, copy |-> copy]

\* the environments of the handler's last part: its quota check and, on
\* channel inotify, the copy of the trigger file
TailEnv(inotify) ==
    {[oom |-> "none", space |-> FALSE, copy |-> FALSE]} \cup
    (IF inotify
     THEN {[oom |-> o, space |-> TRUE, copy |-> FALSE] : o \in {"des", "src"}}
          \cup {[oom |-> "none", space |-> TRUE, copy |-> c] : c \in BOOLEAN}
     ELSE {[oom |-> "none", space |-> TRUE, copy |-> FALSE]})

\* every distinguishable environment, once
CrashEnv(ev) ==
    LET rcrash == conf_crash[ev.private]
        inotify == ev.channel = "inotify"
        collect(c) == to_collect_logs(conf_crash[c]) \/ inotify
    IN  (IF rcrash.trigger = "dir"
         THEN {CE("trfile", 0, FALSE, FALSE, <<>>, FALSE, FALSE)} ELSE {})
        \cup {CE("none", 0, FALSE, FALSE, <<>>, FALSE, FALSE)}
        \cup {CE("none", c, FALSE, FALSE, <<>>, FALSE, FALSE) :
                 c \in rcrash.reclass \ {0}}
        \cup {CE("none", c, TRUE, FALSE, <<>>, FALSE, FALSE) :
                 c \in {x \in rcrash.reclass \ {0} : collect(x)}}
        \cup UNION {{CE(t.oom, c, TRUE, TRUE, ls, t.space, t.copy) :
                        ls \in (IF collect(c)
                                THEN GetLogEnvs(conf_crash[c].log)
                                ELSE {<<>>}),
                        t \in TailEnv(inotify)} :
                    c \in rcrash.reclass \ {0}}

\* asprintf(&what, ...) and whether it succeeds
Asprintf(what, ok) == Call("asprintf", what, "", 0, OkFail(ok), NoPath)

\* the handler from "change the class for other senders" on; c1 holds the
\* calls made so far
CrashClassified(ev, get, seq, env, c1) ==
    LET crash == conf_crash[env.reclass]
        inotify == ev.channel = "inotify"
        ev1 == [ev EXCEPT !.private = env.reclass]
        key == generate_event_id(seq, env.key)
        c2 == c1 \o <<Call("generate_event_id", "CRASH", crash.name, key,
                           OkFail(key # 0), NoPath)>>
        collect == to_collect_logs(crash) \/ inotify
        dir == generate_log_dir("crashlog", key, env.dir)
        ev2 == IF collect THEN [ev1 EXCEPT !.dir = dir] ELSE ev1
        got == CollectAll(get, crash.log, dir, env.logs)
        c3 == IF collect
              THEN c2 \o <<Call("generate_log_dir", "crashlog", "", key,
                                OkFail(dir # NoDir), DirPath(dir)),
                           Call("generate_crashfile", "CRASH", crash.name,
                                key, "", Path(dir, "crashfile", 0, FALSE))>>
                      \o got.calls
              ELSE c2
        f3 == IF collect
              THEN {DirPath(dir), Path(dir, "crashfile", 0, FALSE)}
                   \cup got.files
              ELSE {}
        c4 == c3 \o <<QuotaCheck("crashlog_send_crash", 0, env.space)>>
        des == Path(ev2.dir, ev.path, 0, FALSE)
        raise == <<Call("hist_raise_event", "CRASH", crash.name, key, "",
                        DirPath(ev2.dir))>>
        free_data == <<Free("data0", 0), Free("data1", 0), Free("data2", 0),
                       Free("trfile", 0)>>
        free_key == <<Free("key", 0)>> \o free_data
    IN  IF key = 0
        THEN [calls |-> c2 \o free_data, files |-> {}, e |-> ev1,
              keyseq |-> seq]
        ELSE IF collect /\ dir = NoDir
        THEN [calls |-> c2 \o <<Call("generate_log_dir", "crashlog", "", key,
                                     "fail", NoPath)>> \o free_key,
              files |-> {}, e |-> ev2, keyseq |-> key]
        ELSE IF ~get_sender_by_name("crashlog")
        THEN [calls |-> c3 \o free_key, files |-> f3, e |-> ev2,
              keyseq |-> key]
        ELSE IF ~env.space
        THEN [calls |-> c4 \o <<SpaceFull("crashlog_send_crash", 0)>>
                           \o raise \o free_key,
              files |-> f3, e |-> ev2, keyseq |-> key]
        ELSE IF inotify /\ env.oom = "des"
        THEN [calls |-> c4 \o <<Asprintf("des", FALSE)>> \o free_key,
              files |-> f3, e |-> ev2, keyseq |-> key]
        ELSE IF inotify /\ env.oom = "src"
        THEN [calls |-> c4 \o <<Asprintf("des", TRUE),
                                 Asprintf("src", FALSE), Free("des", 0)>>
                           \o free_key,
              files |-> f3, e |-> ev2, keyseq |-> key]
        ELSE IF inotify
        THEN [calls |-> c4 \o <<Asprintf("des", TRUE), Asprintf("src", TRUE),
                                 Call("do_copy_tail", ev.path, "", 0,
                                      OkFail(env.copy), des),
                                 Free("src", 0), Free("des", 0)>>
                           \o raise \o free_key,
              files |-> f3 \cup (IF env.copy THEN {des} ELSE {}),
              e |-> ev2, keyseq |-> key]
        ELSE [calls |-> c4 \o raise \o free_key, files |-> f3, e |-> ev2,
              keyseq |-> key]

\* the handler carrying on with the detected class when reclassify
\* answers NULL
crashlog_send_crash_carry_on(ev, get, seq, env) ==
    LET rcrash == conf_crash[ev.private]
        same == [calls |-> <<>>, files |-> {}, e |-> ev, keyseq |-> seq]
        c0 == IF rcrash.trigger = "dir" THEN <<Asprintf("trfile", TRUE)>>
              ELSE <<>>
        c1 == c0 \o <<Call("reclassify", rcrash.name, "", env.reclass,
                           OkFail(env.reclass # 0), NoPath)>>
    IN  IF rcrash.trigger = "dir" /\ env.oom = "trfile"
        THEN [same EXCEPT !.calls = <<Asprintf("trfile", FALSE)>>]
        ELSE IF env.reclass = 0
        THEN CrashClassified(ev, get, seq,
                             [env EXCEPT !.reclass = ev.private], c1)
        ELSE CrashClassified(ev, get, seq, env, c1)

crashlog_send_crash(ev, get, seq, env) ==
    LET rcrash == conf_crash[ev.private]
        same == [calls |-> <<>>, files |-> {}, e |-> ev, keyseq |-> seq]
        c0 == IF rcrash.trigger = "dir" THEN <<Asprintf("trfile", TRUE)>>
              ELSE <<>>
        c1 == c0 \o <<Call("reclassify", rcrash.name, "", env.reclass,
                           OkFail(env.reclass # 0), NoPath)>>
    IN  IF rcrash.trigger = "dir" /\ env.oom = "trfile"
        THEN [same EXCEPT !.calls = <<Asprintf("trfile", FALSE)>>]
        ELSE IF env.reclass = 0
        THEN [same EXCEPT !.calls = c1 \o <<Free("trfile", 0)>>]
        ELSE CrashClassified(ev, get, seq, env, c1)

----------------------------------------------------------------------------
(* crashlog_send_info *)

InfoEnv(ev) ==
    LET info == conf_info[ev.private]
    IN  {[key |-> FALSE, dir |-> FALSE, logs |-> <<>>]} \cup
        (IF to_collect_logs(info)
         THEN {[key |-> TRUE, dir |-> FALSE, logs |-> <<>>]} ELSE {}) \cup
        {[key |-> TRUE, dir |-> TRUE, logs |-> ls] :
            ls \in (IF to_collect_logs(info) THEN GetLogEnvs(info.log)
                    ELSE {<<>>})}

\* the handler returning without its history record
crashlog_send_info_silent(ev, get, seq, env) ==
    LET info == conf_info[ev.private]
        key == generate_event_id(seq, env.key)
        c1 == <<Call("generate_event_id", "INFO", info.name, key,
                     OkFail(key # 0), NoPath)>>
        dir == generate_log_dir("stats", key, env.dir)
        ev1 == IF to_collect_logs(info) THEN [ev EXCEPT !.dir = dir] ELSE ev
        got == CollectAll(get, info.log, dir, env.logs)
        raise == <<Call("hist_raise_event", "INFO", info.name, key, "",
                        DirPath(ev1.dir))>>
    IN  IF key = 0
        THEN [calls |-> c1, files |-> {}, e |-> ev, keyseq |-> seq]
        ELSE IF to_collect_logs(info) /\ dir = NoDir
        THEN [calls |-> c1 \o <<Call("generate_log_dir", "stats", "", key,
                                     "fail", NoPath)>>,
              files |-> {}, e |-> ev1, keyseq |-> key]
        ELSE IF to_collect_logs(info)
        THEN [calls |-> c1 \o <<Call("generate_log_dir", "stats", "", key,
                                     "ok", DirPath(dir))>>
                           \o got.calls,
              files |-> {DirPath(dir)} \cup got.files,
              e |-> ev1, keyseq |-> key]
        ELSE [calls |-> c1, files |-> {}, e |-> ev1, keyseq |-> key]

crashlog_send_info(ev, get, seq, env) ==
    LET info == conf_info[ev.private]
        key == generate_event_id(seq, env.key)
        c1 == <<Call("generate_event_id", "INFO", info.name, key,
                     OkFail(key # 0), NoPath)>>
        dir == generate_log_dir("stats", key, env.dir)
        ev1 == IF to_collect_logs(info) THEN [ev EXCEPT !.dir = dir] ELSE ev
        got == CollectAll(get, info.log, dir, env.logs)
        raise == <<Call("hist_raise_event", "INFO", info.name, key, "",
                        DirPath(ev1.dir))>>
    IN  IF key = 0
        THEN [calls |-> c1, files |-> {}, e |-> ev, keyseq |-> seq]
        ELSE IF to_collect_logs(info) /\ dir = NoDir
        THEN [calls |-> c1 \o <<Call("generate_log_dir", "stats", "", key,
                                     "fail", NoPath)>>,
              files |-> {}, e |-> ev1, keyseq |-> key]
        ELSE IF to_collect_logs(info)
        THEN [calls |-> c1 \o <<Call("generate_log_dir", "stats", "", key,
                                     "ok", DirPath(dir))>>
                           \o got.calls \o raise,
              files |-> {DirPath(dir)} \cup got.files,
              e |-> ev1, keyseq |-> key]
        ELSE [calls |-> c1 \o raise, files |-> {}, e |-> ev1, keyseq |-> key]

----------------------------------------------------------------------------
(* crashlog_send_uptime, crashlog_send_reboot *)

\* the handler raising the uptime record a second time
crashlog_send_uptime_twice ==
    [calls |-> <<Call("hist_raise_uptime", NULL, "", 0, "", NoPath),
                 Call("hist_raise_uptime", NULL, "", 0, "", NoPath)>>]

crashlog_send_uptime ==
    [calls |-> <<Call("hist_raise_uptime", NULL, "", 0, "", NoPath)>>]

\* env: swupdated (the build version changed), key1 / key2 (the two
\* generate_event_id calls succeed), reason (read_startupreason)
RebootEnv ==
    {[swupdated |-> TRUE, key1 |-> FALSE, key2 |-> FALSE]} \cup
    [swupdated : {FALSE}, key1 : {FALSE}, key2 : BOOLEAN] \cup
    [swupdated : {TRUE}, key1 : {TRUE}, key2 : BOOLEAN]

crashlog_send_reboot(seq, env) ==
    LET k1 == generate_event_id(seq, env.key1)
        sw == <<Call("generate_event_id", "INFO", "SWUPDATE", k1,
                     OkFail(k1 # 0), NoPath)>>
        seq1 == IF env.swupdated THEN k1 ELSE seq
        c1 == IF env.swupdated
              THEN sw \o <<Call("hist_raise_event", "INFO", "SWUPDATE", k1,
                                "", DirPath(NoDir))>>
              ELSE <<>>
        k2 == generate_event_id(seq1, env.key2)
        c2 == c1 \o <<Call("generate_event_id", "REBOOT", "reason", k2,
                           OkFail(k2 # 0), NoPath)>>
    IN  IF ~get_sender_by_name("crashlog")
        THEN [calls |-> <<>>, keyseq |-> seq]
        ELSE IF env.swupdated /\ k1 = 0
        THEN [calls |-> sw, keyseq |-> seq]
        ELSE IF k2 = 0 THEN [calls |-> c2, keyseq |-> seq1]
        ELSE [calls |-> c2 \o <<Call("hist_raise_event", "REBOOT", "reason",
                                     k2, "", DirPath(NoDir))>>,
              keyseq |-> k2]

----------------------------------------------------------------------------
(* telemd_get_log *)

\* the sequences that list every element of S once
Orders(S) ==
    {f \in [1..Cardinality(S) -> S] : \A x \in S : \E i \in DOMAIN f : f[i] = x}

\* ac_scandir(srcdir, &filelist, filter_filename_substr, log->name, NULL):
\* the files of the directory that carry the descriptor's name; without a
\* compar the order is the directory's, so any order can come back
ac_scandir(files, srcdir, name) ==
    Orders({p \in files : InDir(p, srcdir) /\ p.name = name})

\* a telemd_data_t whose srcdir is left NULL
TelemdDataNoSrcdir(class, srcdir, eventid, severity) ==
    [class |-> class, srcdir |-> NoDir, eventid |-> eventid,
     severity |-> severity]

\* struct telemd_data_t
TelemdData(class, srcdir, eventid, severity) ==
    [class |-> class, srcdir |-> srcdir, eventid |-> eventid,
     severity |-> severity]

\* the submissions one telemd_get_log invocation makes when nothing fails
NSends(l, d, files) ==
    LET n == Cardinality({p \in files : InDir(p, d.srcdir) /\
                                        p.name = conf_log[l].name})
    IN  IF d.srcdir = NoDir \/ n = 0 THEN 1 ELSE n

\* env: scan (ac_scandir succeeds), list (the entries it hands back, in its
\* order), oom (asprintf of the placeholder fails), outs (the outcome of
\* each submission)
TelemdLogEnv(l, d, files) ==
    LET lists == ac_scandir(files, d.srcdir, conf_log[l].name)
        none == lists = {<<>>}
    IN  (IF d.srcdir # NoDir
         THEN {[scan |-> FALSE, list |-> <<>>, oom |-> FALSE, outs |-> <<>>]}
         ELSE {}) \cup
        (IF d.srcdir = NoDir \/ none
         THEN {[scan |-> TRUE, list |-> <<>>, oom |-> TRUE, outs |-> <<>>]}
         ELSE {}) \cup
        {[scan |-> TRUE, list |-> ls, oom |-> FALSE, outs |-> o] :
            ls \in (IF d.srcdir = NoDir THEN {<<>>} ELSE lists),
            o \in [1..NSends(l, d, files) -> TmOutcome(d.eventid)]}

telemd_get_log(l, d, files, env) ==
    LET log == conf_log[l]
        list == env.list
        scan == Call("ac_scandir", log.name, "",
                     IF env.scan THEN Len(list) ELSE -1, OkFail(env.scan),
                     DirPath(d.srcdir))
        msg == Call("asprintf", "msg", log.name, l, OkFail(~env.oom), NoPath)
        nologs == IF env.oom THEN <<msg>>
                  ELSE <<msg>> \o telemd_send_data(
                           Payload("no log generated on " \o log.name, NoPath),
                           d.eventid, d.severity, d.class, Out(env.outs, 1)).calls
        one(i) == telemd_send_data(Payload("file", list[i]), d.eventid,
                                   d.severity, d.class, Out(env.outs, i)).calls
    IN  IF d.srcdir = NoDir THEN nologs
        ELSE IF ~env.scan THEN <<scan>>
        ELSE IF list = <<>> THEN <<scan>> \o nologs
        ELSE <<scan>> \o
             Flatten([i \in 1..Len(list) |->
                         IF i <= Len(env.outs) THEN one(i) ELSE <<>>])

(* log->get(log, data) as called by the telemd handlers: data is a        *)
(* telemd_data_t.  Only telemd_get_log takes one.                         *)
LogGetData(getter, l, d, files, env) ==
    IF getter = "telemd_get_log" THEN telemd_get_log(l, d, files, env)
    ELSE <<Call(getter, conf_log[l].name, "", l, "bad_data", NoPath)>>

SubmitAll(get, ls, d, files, envs) ==
    Flatten([i \in 1..Len(ls) |->
                LogGetData(get[ls[i]], ls[i], d, files, envs[i])])

TelemdLogEnvs(ls, d, files) ==
    {es \in [1..Len(ls) -> UNION {TelemdLogEnv(l, d, files) : l \in LogIds}] :
        \A i \in 1..Len(ls) : es[i] \in TelemdLogEnv(ls[i], d, files)}

----------------------------------------------------------------------------
(* telemd_send_crash, telemd_send_info *)

\* the original location of a trigger file, outside the outdir
TriggerDir == Dir("trigger", 0)

\* env: pre ("ok", "oom" when asprintf of the class fails, "noid" when
\* generate_eventid256 fails), logs (the getters' environments), trig (the
\* trigger file: "oom_des", "oom_ori", "missing" when neither copy exists,
\* else the outcome of its submission)
TelemdCrashEnv(ev, files) ==
    LET class == "clearlinux/crash/" \o conf_crash[ev.private].name
        d == TelemdData(class, ev.dir, generate_eventid256(class, TRUE),
                        CRASH_SEVERITY)
        des == Path(ev.dir, ev.path, 0, FALSE)
    IN  {[pre |-> p, logs |-> <<>>, trig |-> "ok"] : p \in {"oom", "noid"}}
        \cup
        [pre : {"ok"},
         logs : TelemdLogEnvs(conf_crash[ev.private].log, d, files),
         trig : IF ev.channel # "inotify" THEN {"ok"}
                ELSE IF ev.dir # NoDir /\ des \in files
                THEN {"oom_des"} \cup TmOutcome(d.eventid)
                ELSE {"oom_des", "oom_ori", "missing"} \cup
                     TmOutcome(d.eventid)]

telemd_send_crash(ev, get, files, env) ==
    LET crash == conf_crash[ev.private]
        class == "clearlinux/crash/" \o crash.name
        eventid == generate_eventid256(class, env.pre # "noid")
        data == TelemdData(class, ev.dir, eventid, CRASH_SEVERITY)
        c0 == <<Call("asprintf", "class", class, 0, OkFail(env.pre # "oom"),
                     NoPath)>>
        c1 == c0 \o <<Call("generate_eventid256", class, "", 0,
                           OkFail(eventid # NULL), NoPath)>>
                 \o SubmitAll(get, crash.log, data, files, env.logs)
        des == Path(ev.dir, ev.path, 0, FALSE)
        ori == Path(TriggerDir, ev.path, 0, FALSE)
        file_exists == ev.dir # NoDir /\ des \in files
        c2 == c1 \o <<Asprintf("des", TRUE),
                      Call("file_exists", "des", "", 0, Bool(file_exists),
                           des)>>
        c3 == c2 \o <<Asprintf("ori", TRUE),
                      Call("file_exists", "ori", "", 0,
                           Bool(env.trig # "missing"), ori)>>
    IN  IF env.pre = "oom" THEN c0
        ELSE IF env.pre # "ok"
        THEN c0 \o <<Call("generate_eventid256", class, "", 0, "fail",
                          NoPath)>>
        ELSE IF ev.channel # "inotify" THEN c1
        ELSE IF env.trig = "oom_des" THEN c1 \o <<Asprintf("des", FALSE)>>
        ELSE IF file_exists
        THEN c2 \o telemd_send_data(
                       Payload("file", des), eventid, CRASH_SEVERITY, class,
                       IF env.trig \in TmOutcome(eventid) THEN env.trig
                       ELSE "ok").calls
        ELSE IF env.trig = "oom_ori" THEN c2 \o <<Asprintf("ori", FALSE)>>
        ELSE IF env.trig = "missing" THEN c3
        ELSE c3 \o telemd_send_data(Payload("file", ori), eventid,
                                    CRASH_SEVERITY, class, env.trig).calls

TelemdInfoEnv(ev, files) ==
    LET class == "clearlinux/info/" \o conf_info[ev.private].name
        d == TelemdData(class, ev.dir, generate_eventid256(class, TRUE),
                        INFO_SEVERITY)
    IN  {[pre |-> p, logs |-> <<>>] : p \in {"oom", "noid"}} \cup
        [pre : {"ok"}, logs : TelemdLogEnvs(conf_info[ev.private].log, d, files)]

telemd_send_info(ev, get, files, env) ==
    LET info == conf_info[ev.private]
        class == "clearlinux/info/" \o info.name
        eventid == generate_eventid256(class, env.pre # "noid")
        data == TelemdData(class, ev.dir, eventid, INFO_SEVERITY)
        c0 == <<Call("asprintf", "class", class, 0, OkFail(env.pre # "oom"),
                     NoPath)>>
        c1 == c0 \o <<Call("generate_eventid256", class, "", 0,
                           OkFail(eventid # NULL), NoPath)>>
    IN  IF env.pre = "oom" THEN c0
        ELSE IF env.pre # "ok" THEN c1
        ELSE c1 \o SubmitAll(get, info.log, data, files, env.logs)

----------------------------------------------------------------------------
(* telemd_send_uptime, telemd_send_reboot *)

\* struct uptime_t of the telemd sender
conf_uptime == [eventhours |-> "2"]

\* env: uptime (get_uptime_string succeeds), hours (the hours it reads),
\* oom ("none", "class", "content"), out (the outcome of the submission)
UptimeEnv ==
    {[uptime |-> FALSE, oom |-> "none", out |-> "ok"]} \cup
    {[uptime |-> TRUE, oom |-> o, out |-> "ok"] : o \in {"class", "content"}}
    \cup [uptime : {TRUE}, oom : {"none"}, out : TmOutcome(NULL)]

\* the handler leaving loop_uptime_event as it was
telemd_send_uptime_no_update(hrs, loop, env) ==
    LET uptime_hours == atoi(conf_uptime.eventhours)
        class == "clearlinux/uptime/boot_time"
        c0 == <<Call("get_uptime_string", "", "", hrs, OkFail(env.uptime),
                     NoPath)>>
    IN  IF ~env.uptime THEN [calls |-> c0, loop |-> loop]
        ELSE IF hrs \div uptime_hours >= loop
        THEN [calls |->
                  IF env.oom = "class" THEN c0 \o <<Asprintf("class", FALSE)>>
                  ELSE IF env.oom = "content"
                  THEN c0 \o <<Asprintf("class", TRUE),
                               Asprintf("content", FALSE), Free("class", 0)>>
                  ELSE c0 \o <<Asprintf("class", TRUE),
                               Asprintf("content", TRUE)>>
                          \o telemd_send_data(
                                 Payload("system boot time", NoPath), NULL,
                                 INFO_SEVERITY, class, env.out).calls
                          \o <<Free("class", 0), Free("content", 0)>>,
              loop |-> loop]
        ELSE [calls |-> c0, loop |-> loop]

telemd_send_uptime(hrs, loop, env) ==
    LET uptime_hours == atoi(conf_uptime.eventhours)
        class == "clearlinux/uptime/boot_time"
        c0 == <<Call("get_uptime_string", "", "", hrs, OkFail(env.uptime),
                     NoPath)>>
    IN  IF ~env.uptime THEN [calls |-> c0, loop |-> loop]
        ELSE IF hrs \div uptime_hours >= loop
        THEN [calls |->
                  IF env.oom = "class" THEN c0 \o <<Asprintf("class", FALSE)>>
                  ELSE IF env.oom = "content"
                  THEN c0 \o <<Asprintf("class", TRUE),
                               Asprintf("content", FALSE), Free("class", 0)>>
                  ELSE c0 \o <<Asprintf("class", TRUE),
                               Asprintf("content", TRUE)>>
                          \o telemd_send_data(
                                 Payload("system boot time", NoPath), NULL,
                                 INFO_SEVERITY, class, env.out).calls
                          \o <<Free("class", 0), Free("content", 0)>>,
              loop |-> (hrs \div uptime_hours) + 1]
        ELSE [calls |-> c0, loop |-> loop]

\* env: swupdated, oom ("none", "class1", "content", "class2"), out1 / out2
\* (the outcomes of the two submissions)
TelemdRebootEnv ==
    {[swupdated |-> TRUE, oom |-> o, out1 |-> "ok", out2 |-> "ok"] :
        o \in {"class1", "content"}} \cup
    [swupdated : {FALSE}, oom : {"none", "class2"}, out1 : {"ok"},
     out2 : TmOutcome(NULL)] \cup
    [swupdated : {TRUE}, oom : {"none", "class2"}, out1 : TmOutcome(NULL),
     out2 : TmOutcome(NULL)]

telemd_send_reboot(env) ==
    LET sw == "clearlinux/swupdate/-"
        rb == "clearlinux/reboot/reason"
        class(c, ok) == Call("asprintf", "class", c, 0, OkFail(ok), NoPath)
        c0 == <<Call("swupdated", "telemd", "", 0, Bool(env.swupdated),
                     NoPath)>>
        c1 == IF env.swupdated
              THEN c0 \o <<class(sw, TRUE), Asprintf("content", TRUE)>>
                      \o telemd_send_data(Payload("system update to", NoPath),
                                          NULL, INFO_SEVERITY, sw,
                                          env.out1).calls
              ELSE c0
    IN  IF env.swupdated /\ env.oom = "class1"
        THEN c0 \o <<class(sw, FALSE)>>
        ELSE IF env.swupdated /\ env.oom = "content"
        THEN c0 \o <<class(sw, TRUE), Asprintf("content", FALSE)>>
        ELSE IF env.oom = "class2" THEN c1 \o <<class(rb, FALSE)>>
        ELSE c1 \o <<class(rb, TRUE)>>
                \o telemd_send_data(Payload("reboot", NoPath), NULL,
                                    INFO_SEVERITY, rb, env.out2).calls

----------------------------------------------------------------------------
(* Guest (VM) event lines *)

\* A line of the guest's history_event file: w holds the leading words
\* (event, key, long time, type), rest the remainder of the line cut at the
\* path separators that matter to strstr(rest, "/logs/").
vm_history == <<
    [w |-> <<"CRASH", "k1", "2017-11-11/03:12:59", "JAVACRASH">>,
     rest |-> <<"/data", "/logs/", "crashlog0_k1">>],
    [w |-> <<"garbage">>, rest |-> <<>>],
    [w |-> <<"REBOOT", "k2", "2011-11-11/11:20:51", "POWER-ON">>,
     rest |-> <<"0000:00:00">>],
    [w |-> <<"CRASH", "k3", "2017-11-11/03:13:00", "IPANIC">>, rest |-> <<>>],
    [w |-> <<"INFO", "k4", "2017-11-11/03:14:00", "BOOT">>,
     rest |-> <<"/logs/", "stats0_k4">>] >>

NoLine == [w |-> <<>>, rest |-> <<>>]

\* the number of fields sscanf(line, vm_format, event, vmkey, longtime, type,
\* rest) converts: four words, then the non-empty remainder of the line
sscanf(ln) ==
    IF Len(ln.w) < 4 THEN Len(ln.w)
    ELSE IF ln.rest = <<>> THEN 4
    ELSE 5

\* strstr(hay, needle) on sequences: the first position of needle, 0 if none
strstr(hay, needle) ==
    LET at == {i \in 1..(Len(hay) - Len(needle) + 1) :
                  SubSeq(hay, i, i + Len(needle) - 1) = needle}
    IN  IF at = {} THEN 0 ELSE CHOOSE i \in at : \A j \in at : i <= j

----------------------------------------------------------------------------
(* crashlog_new_vmevent *)

\* env: space (space_available), key / dir (generate_event_id /
\* generate_log_dir succeed), res and cnt (what e2fs_dump_dir_by_dpath
\* returns and the number of files it recovered)
VE(space, key, dir, res, cnt) ==
    [space |-> space, key |-> key, dir |-> dir, res |-> res, cnt |-> cnt]

VmEnv ==
    {VE(FALSE, FALSE, FALSE, 0, 0), VE(TRUE, FALSE, FALSE, 0, 0),
     VE(TRUE, TRUE, FALSE, 0, 0)} \cup
    {VE(TRUE, TRUE, TRUE, r, c) : r \in {0, -1}, c \in 0..MaxEntries}

\* the files a dump that recovered cnt files leaves in dir
Dumped(dir, cnt) == {Path(dir, "dump", i, FALSE) : i \in 1..cnt}

\* remove(dir): a directory is removed only when it is empty
remove(files, dir) ==
    IF \E p \in files : InDir(p, dir) THEN files ELSE files \ {DirPath(dir)}

\* the outcome when e2fs_dump_dir_by_dpath fails after recovering cnt files,
\* with the "missing logdir" case reported as an aborted dump
MissingLogdirDeferred(cnt) == VMEVT_DEFER

\* the outcome when e2fs_dump_dir_by_dpath fails after recovering cnt files
MissingLogdir(cnt) == IF cnt # 0 THEN VMEVT_DEFER ELSE VMEVT_HANDLED

\* the handler once key and dir exist: the dump of the guest's log
\* directory when the line names one, then the manifest and the record
VmeventRecord(ln, files, key, dir, env) ==
    LET event == ln.w[1]
        type == ln.w[4]
        log == strstr(ln.rest, <<"/logs/">>)
        dump == IF log # 0
                THEN <<Call("e2fs_dump_dir_by_dpath", "", "", env.cnt,
                            OkFail(env.res # -1), DirPath(dir))>>
                ELSE <<>>
        f3 == files \cup {DirPath(dir)} \cup
              (IF log # 0 THEN Dumped(dir, env.cnt) ELSE {})
        manifest == Path(dir, "crashfile", 0, FALSE)
    IN  IF log # 0 /\ env.res = -1
        THEN [calls |-> dump \o <<Call("remove", "", "", 0, "", DirPath(dir)),
                                  Free("dir", 0)>>,
              fs |-> remove(f3, dir), keyseq |-> key,
              ret |-> MissingLogdir(env.cnt)]
        ELSE [calls |-> dump \o
                        <<Call("generate_crashfile", event, type, key, "",
                               manifest),
                          Call("hist_raise_event", vm.name, type, key, "",
                               DirPath(dir)),
                          Free("dir", 0)>>,
              fs |-> f3 \cup {manifest}, keyseq |-> key,
              ret |-> VMEVT_HANDLED]

\* the handler returning without free(key) when generate_log_dir failed
VmeventKeyedLeak(ln, files, key, env) ==
    LET dir == generate_log_dir("vmevent", key, env.dir)
        gd == <<Call("generate_log_dir", "vmevent", "", key,
                     OkFail(dir # NoDir), DirPath(dir))>>
        rec == VmeventRecord(ln, files, key, dir, env)
    IN  IF dir = NoDir
        THEN [calls |-> gd, fs |-> files, keyseq |-> key, ret |-> VMEVT_DEFER]
        ELSE [rec EXCEPT !.calls = gd \o rec.calls \o <<Free("key", 0)>>]

\* the handler once the key exists: the directory, then the record
VmeventKeyed(ln, files, key, env) ==
    LET dir == generate_log_dir("vmevent", key, env.dir)
        gd == <<Call("generate_log_dir", "vmevent", "", key,
                     OkFail(dir # NoDir), DirPath(dir))>>
        rec == VmeventRecord(ln, files, key, dir, env)
    IN  IF dir = NoDir
        THEN [calls |-> gd \o <<Free("key", 0)>>, fs |-> files,
              keyseq |-> key, ret |-> VMEVT_DEFER]
        ELSE [rec EXCEPT !.calls = gd \o rec.calls \o <<Free("key", 0)>>]

\* the handler taking a line of four converted fields for a whole one
crashlog_new_vmevent_four(ln, files, seq, env) ==
    LET same(c, r) == [calls |-> c, fs |-> files, keyseq |-> seq, ret |-> r]
        sp == <<QuotaCheck("crashlog_new_vmevent", 0, env.space)>>
        key == generate_event_id(seq, env.key)
        c1 == sp \o <<Call("generate_event_id", "SOS", ln.w[2], key,
                           OkFail(key # 0), NoPath)>>
        rec == VmeventKeyed(ln, files, key, env)
    IN  IF sscanf(ln) < 4 THEN same(<<>>, VMEVT_HANDLED)
        ELSE IF ~get_sender_by_name("crashlog")
        THEN same(<<>>, VMEVT_HANDLED)
        ELSE IF ~env.space
        THEN same(sp \o <<SpaceFull("crashlog_new_vmevent", 0)>>,
                  VMEVT_HANDLED)
        ELSE IF key = 0 THEN same(c1, VMEVT_DEFER)
        ELSE [rec EXCEPT !.calls = c1 \o rec.calls]

\* the handler returning ret, still VMEVT_HANDLED, when generate_event_id
\* failed
crashlog_new_vmevent_ret(ln, files, seq, env) ==
    LET same(c, r) == [calls |-> c, fs |-> files, keyseq |-> seq, ret |-> r]
        sp == <<QuotaCheck("crashlog_new_vmevent", 0, env.space)>>
        key == generate_event_id(seq, env.key)
        c1 == sp \o <<Call("generate_event_id", "SOS", ln.w[2], key,
                           OkFail(key # 0), NoPath)>>
        rec == VmeventKeyed(ln, files, key, env)
    IN  IF sscanf(ln) # 5 THEN same(<<>>, VMEVT_HANDLED)
        ELSE IF ~get_sender_by_name("crashlog")
        THEN same(<<>>, VMEVT_HANDLED)
        ELSE IF ~env.space
        THEN same(sp \o <<SpaceFull("crashlog_new_vmevent", 0)>>,
                  VMEVT_HANDLED)
        ELSE IF key = 0 THEN same(c1, VMEVT_HANDLED)
        ELSE [rec EXCEPT !.calls = c1 \o rec.calls]

crashlog_new_vmevent(ln, files, seq, env) ==
    LET same(c, r) == [calls |-> c, fs |-> files, keyseq |-> seq, ret |-> r]
        sp == <<QuotaCheck("crashlog_new_vmevent", 0, env.space)>>
        key == generate_event_id(seq, env.key)
        c1 == sp \o <<Call("generate_event_id", "SOS", ln.w[2], key,
                           OkFail(key # 0), NoPath)>>
        rec == VmeventKeyed(ln, files, key, env)
    IN  IF sscanf(ln) # 5 THEN same(<<>>, VMEVT_HANDLED)
        ELSE IF ~get_sender_by_name("crashlog")
        THEN same(<<>>, VMEVT_HANDLED)
        ELSE IF ~env.space
        THEN same(sp \o <<SpaceFull("crashlog_new_vmevent", 0)>>,
                  VMEVT_HANDLED)
        ELSE IF key = 0 THEN same(c1, VMEVT_DEFER)
        ELSE [rec EXCEPT !.calls = c1 \o rec.calls]

----------------------------------------------------------------------------
(* telemd_new_vmevent *)

\* names of directory entries, as character sequences
SelfRefs == <<<<".">>, <<".", ".">>>>
RealNames == <<<<"a">>, <<"b">>, <<".", "h">>>>

\* the real entries a directory can hold, in the order lsdir lists them
Listings ==
    {SelectSeq(RealNames, LAMBDA x : x \in S) :
        S \in {T \in SUBSET {RealNames[i] : i \in 1..Len(RealNames)} :
                  Cardinality(T) <= MaxEntries}}

\* the directory find_file can hand back as vmlogpath: one under a plain
\* outdir, one under an outdir with a component that begins with "."
VmLogPaths == {<<"/", "o", "/", "d">>, <<"/", ".", "h", "/", "d">>}

\* the path lsdir builds for an entry: "<vmlogpath>/<entry>"
EntryPath(dir, name) == dir \o <<"/">> \o name
EntryPaths(dir, names) == [i \in 1..Len(names) |-> EntryPath(dir, names[i])]

\* what lsdir(vmlogpath, files, 512) can answer: an error (-1), a listing
\* that lacks the self-references, or the self-references and real entries;
\* files holds the paths of the entries
LsdirAnswers ==
    {[count |-> -1, files |-> <<>>], [count |-> 0, files |-> <<>>]} \cup
    {[count |-> 1, files |-> EntryPaths(d, <<SelfRefs[1]>>)] :
        d \in VmLogPaths} \cup
    {[count |-> 2 + Len(s), files |-> EntryPaths(d, SelfRefs \o s)] :
        s \in Listings, d \in VmLogPaths}

RECURSIVE Name(_)
\* the string a character sequence spells
Name(cs) == IF cs = <<>> THEN "" ELSE Head(cs) \o Name(Tail(cs))

\* the entries of a listing that get submitted: those whose path holds
\* neither "/." nor "/.."
Shipped(files) ==
    SelectSeq(files,
              LAMBDA f : strstr(f, <<"/", ".">>) = 0 /\
                         strstr(f, <<"/", ".", ".">>) = 0)

\* env: find (find_file: "err", "none", "found"), pre ("ok", "oom" for the
\* class, "noid" for the event id), ls (lsdir's answer), oom (asprintf of
\* the "no logs under" text fails), outs (the outcome of each submission)
TE(find, pre, ls, oom, outs) ==
    [find |-> find, pre |-> pre, ls |-> ls, oom |-> oom, outs |-> outs]

NoLs == [count |-> -1, files |-> <<>>]

TelemdVmEnv ==
    {TE("err", "ok", NoLs, FALSE, <<>>)} \cup
    {TE(f, p, NoLs, FALSE, <<>>) :
        f \in {"none", "found"}, p \in {"oom", "noid"}} \cup
    {TE("none", "ok", NoLs, FALSE, <<o>>) : o \in TmOutcome("id")} \cup
    {TE("found", "ok", a, FALSE, <<>>) :
        a \in {x \in LsdirAnswers : x.count < 2}} \cup
    {TE("found", "ok", a, TRUE, <<>>) :
        a \in {x \in LsdirAnswers : x.count = 2}} \cup
    {TE("found", "ok", a, FALSE, <<o>>) :
        a \in {x \in LsdirAnswers : x.count = 2}, o \in TmOutcome("id")} \cup
    UNION {{TE("found", "ok", a, FALSE, os) :
               os \in [1..Len(Shipped(a.files)) -> TmOutcome("id")]} :
           a \in {x \in LsdirAnswers : x.count > 2}}

\* the "no logs" submission that forgets a failed submission
telemd_no_logs_handled(eventid, severity, class, o) ==
    [calls |-> telemd_send_data(Payload("no logs", NoPath), eventid, severity,
                                class, o).calls,
     ret |-> VMEVT_HANDLED]

\* no log directory: the "no logs" submission
telemd_no_logs(eventid, severity, class, o) ==
    LET d == telemd_send_data(Payload("no logs", NoPath), eventid, severity,
                              class, o)
    IN  [calls |-> d.calls,
         ret |-> IF d.ret = -1 THEN VMEVT_DEFER ELSE VMEVT_HANDLED]

\* the asprintf of the "no logs under (<path>)" text
Content(oom) ==
    Call("asprintf", "no logs under", "", 0, OkFail(~oom), NoPath)

\* the "no logs under" submission that submits the text once per entry
telemd_no_logs_under_each(eventid, severity, class, oom, o) ==
    LET d == telemd_send_data(Payload("no logs under", NoPath), eventid,
                              severity, class, o)
    IN  IF oom THEN [calls |-> <<Content(oom)>>, ret |-> VMEVT_DEFER]
        ELSE [calls |-> <<Content(oom)>> \o d.calls \o d.calls
                        \o <<Free("no logs under", 0)>>,
              ret |-> IF d.ret = -1 THEN VMEVT_DEFER ELSE VMEVT_HANDLED]

\* a listing of exactly the two self-references: the "no logs under"
\* submission
telemd_no_logs_under(eventid, severity, class, oom, o) ==
    LET d == telemd_send_data(Payload("no logs under", NoPath), eventid,
                              severity, class, o)
    IN  IF oom THEN [calls |-> <<Content(oom)>>, ret |-> VMEVT_DEFER]
        ELSE [calls |-> <<Content(oom)>> \o d.calls
                        \o <<Free("no logs under", 0)>>,
              ret |-> IF d.ret = -1 THEN VMEVT_DEFER ELSE VMEVT_HANDLED]

\* the tests the loop makes on the i-th listed path:
\* !strstr(files[i], "/.") && !strstr(files[i], "/..")
Filter(f, i) ==
    LET dot == strstr(f, <<"/", ".">>)
        dotdot == strstr(f, <<"/", ".", ".">>)
    IN  <<Call("strstr", Name(f), "/.", i,
               IF dot # 0 THEN "found" ELSE "none", NoPath)>> \o
        (IF dot = 0
         THEN <<Call("strstr", Name(f), "/..", i,
                     IF dotdot # 0 THEN "found" ELSE "none", NoPath)>>
         ELSE <<>>)

telemd_new_vmevent(ln, env) ==
    LET event == ln.w[1]
        type == ln.w[4]
        severity == IF event = "CRASH" THEN CRASH_SEVERITY ELSE INFO_SEVERITY
        log == strstr(ln.rest, <<"/logs/">>)
        ff == <<Call("find_file", "", "", 0, env.find, NoPath)>>
        c0 == IF log # 0 THEN ff ELSE <<>>
        vmlogpath == log # 0 /\ env.find = "found"
        class == vm.name \o "/" \o event \o "/" \o type
        c1 == c0 \o <<Call("asprintf", "class", "", 0,
                           OkFail(env.pre # "oom"), NoPath)>>
        eventid == generate_eventid256(class, env.pre # "noid")
        c2 == c1 \o <<Call("generate_eventid256", class, "", 0,
                           OkFail(eventid # NULL), NoPath)>>
        files == env.ls.files
        sent(i) == IF Shipped(<<files[i]>>) = <<>>
                   THEN [ret |-> 0, calls |-> <<>>]
                   ELSE telemd_send_data(
                            Payload(Name(files[i]), NoPath), eventid,
                            severity, class,
                            Out(env.outs, Len(Shipped(SubSeq(files, 1, i)))))
        nologs == telemd_no_logs(eventid, severity, class, Out(env.outs, 1))
        under == telemd_no_logs_under(eventid, severity, class, env.oom,
                                      Out(env.outs, 1))
        ls == <<Call("lsdir", "", "", env.ls.count, "", NoPath)>>
        count == IF env.ls.count > 0 THEN env.ls.count ELSE 0
        free_files == [i \in 1..count |-> Free("files", count - i)]
        free_vmlogpath == IF vmlogpath THEN <<Free("vmlogpath", 0)>>
                          ELSE <<>>
        free_class == <<Free("class", 0)>> \o free_vmlogpath
        free == <<Free("eventid", 0)>> \o free_class
    IN  IF sscanf(ln) # 5 THEN [calls |-> <<>>, ret |-> VMEVT_HANDLED]
        ELSE IF log # 0 /\ ~get_sender_by_name("crashlog")
        THEN [calls |-> <<>>, ret |-> VMEVT_HANDLED]
        ELSE IF log # 0 /\ env.find = "err"
        THEN [calls |-> ff, ret |-> VMEVT_DEFER]
        ELSE IF env.pre = "oom"
        THEN [calls |-> c1 \o free_vmlogpath, ret |-> VMEVT_DEFER]
        ELSE IF eventid = NULL
        THEN [calls |-> c2 \o free_class, ret |-> VMEVT_DEFER]
        ELSE IF ~vmlogpath
        THEN [calls |-> c2 \o nologs.calls \o free, ret |-> nologs.ret]
        ELSE IF env.ls.count > 2
        THEN [calls |-> c2 \o ls \o
                        Flatten([i \in 1..Len(files) |->
                                    Filter(files[i], i) \o sent(i).calls])
                        \o free_files \o free,
              ret |-> IF \E i \in 1..Len(files) : sent(i).ret = -1
                      THEN VMEVT_DEFER ELSE VMEVT_HANDLED]
        ELSE IF env.ls.count = 2
        THEN [calls |-> c2 \o ls \o under.calls \o free_files \o free,
              ret |-> under.ret]
        ELSE [calls |-> c2 \o ls \o free_files \o free, ret |-> VMEVT_DEFER]

----------------------------------------------------------------------------
(* The state machine: detection, then each configured sender's send *)

NoEvent ==
    [event_type |-> "NONE", channel |-> "", path |-> "", private |-> 0,
     dir |-> NoDir]

\* the events detection can hand to the senders; "OTHER" stands for an
\* event type outside CRASH, INFO, UPTIME, REBOOT, VM
Events ==
    {[event_type |-> "CRASH", channel |-> ch, path |-> "trigger.txt",
      private |-> c, dir |-> NoDir] :
        ch \in {"inotify", "polling"}, c \in 1..Len(conf_crash)} \cup
    {[event_type |-> "INFO", channel |-> "polling", path |-> "",
      private |-> i, dir |-> NoDir] : i \in 1..Len(conf_info)} \cup
    {[event_type |-> t, channel |-> "polling", path |-> "", private |-> 0,
      dir |-> NoDir] : t \in {"UPTIME", "REBOOT", "VM", "OTHER"}}

SenderNames == {"crashlog", "telemd"}

Init ==
    /\ senders \in (SUBSET SenderNames) \ {{}}
    /\ e = NoEvent
    /\ logget = [l \in LogIds |-> NULL]
    /\ fs = {}
    /\ fs0 = {}
    /\ keyseq = 0
    /\ calls = <<>>
    /\ fn = "init_sender"
    /\ ret = ""
    /\ done = senders
    /\ pass = {}
    /\ cursor = [s \in SenderNames |-> 0]
    /\ line = NoLine
    /\ hours = 0
    /\ loop_uptime_event = 1
    /\ srcfile = <<>>
    /\ desfile = NoFile
    /\ loglines = NULL

\* An event is detected once every sender is through with the previous one.
\* No handler of a host event reads what an earlier event left under the
\* outdir (each event gets a directory of its own), so those paths are
\* dropped here; guest events keep them, since a deferred line is retried.
DetectEvent(ev) ==
    /\ done = senders
    /\ pass = {}
    /\ e' = ev
    /\ done' = {}
    /\ calls' = <<>>
    /\ fn' = "detect"
    /\ ret' = ""
    /\ fs' = IF ev.event_type = "VM" THEN fs ELSE {}
    /\ fs0' = fs'
    /\ line' = NoLine
    /\ UNCHANGED <<srcfile, desfile, loglines, senders, logget, keyseq, pass, cursor, hours,
                   loop_uptime_event>>

Detect == \E ev \in {x \in Events : x.event_type # "VM"} : DetectEvent(ev)

DetectVm == \E ev \in {x \in Events : x.event_type = "VM"} : DetectEvent(ev)

\* the loop over the descriptors stopping after the first one
\* (the operator after it is the loop of crashlog_send / telemd_send, which
\* points every descriptor's get at the sender's own getter)
PatchFirstOnly(getter) ==
    [l \in LogIds |-> IF l = 1 THEN getter ELSE logget[l]]

Patch(getter) == [l \in LogIds |-> getter]

Ready(s) == s \in senders /\ s \notin done /\ pass = {}

CrashlogSendCrash ==
    /\ Ready("crashlog")
    /\ e.event_type = "CRASH"
    /\ keyseq < MaxKeys
    /\ \E env \in CrashEnv(e) :
          LET r == crashlog_send_crash(e, Patch("crashlog_get_log"), keyseq,
                                       env)
          IN  /\ calls' = r.calls
              /\ fs' = fs \cup r.files
              /\ e' = r.e
              /\ keyseq' = r.keyseq
    /\ logget' = Patch("crashlog_get_log")
    /\ fn' = "crashlog_send_crash"
    /\ fs0' = fs
    /\ done' = done \cup {"crashlog"}
    /\ UNCHANGED <<srcfile, desfile, loglines, senders, ret, pass, cursor, line, hours,
                   loop_uptime_event>>

CrashlogSendInfo ==
    /\ Ready("crashlog")
    /\ e.event_type = "INFO"
    /\ keyseq < MaxKeys
    /\ \E env \in InfoEnv(e) :
          LET r == crashlog_send_info(e, Patch("crashlog_get_log"), keyseq,
                                      env)
          IN  /\ calls' = r.calls
              /\ fs' = fs \cup r.files
              /\ e' = r.e
              /\ keyseq' = r.keyseq
    /\ logget' = Patch("crashlog_get_log")
    /\ fn' = "crashlog_send_info"
    /\ fs0' = fs
    /\ done' = done \cup {"crashlog"}
    /\ UNCHANGED <<srcfile, desfile, loglines, senders, ret, pass, cursor, line, hours,
                   loop_uptime_event>>

CrashlogSendUptime ==
    /\ Ready("crashlog")
    /\ e.event_type = "UPTIME"
    /\ calls' = crashlog_send_uptime.calls
    /\ logget' = Patch("crashlog_get_log")
    /\ fn' = "crashlog_send_uptime"
    /\ fs0' = fs
    /\ done' = done \cup {"crashlog"}
    /\ UNCHANGED <<srcfile, desfile, loglines, senders, e, fs, keyseq, ret, pass, cursor, line, hours,
                   loop_uptime_event>>

CrashlogSendReboot ==
    /\ Ready("crashlog")
    /\ e.event_type = "REBOOT"
    /\ keyseq + 1 < MaxKeys
    /\ \E env \in RebootEnv :
          LET r == crashlog_send_reboot(keyseq, env)
          IN  /\ calls' = r.calls
              /\ keyseq' = r.keyseq
    /\ logget' = Patch("crashlog_get_log")
    /\ fn' = "crashlog_send_reboot"
    /\ fs0' = fs
    /\ done' = done \cup {"crashlog"}
    /\ UNCHANGED <<srcfile, desfile, loglines, senders, e, fs, ret, pass, cursor, line, hours,
                   loop_uptime_event>>

\* the default branch of crashlog_send's switch
CrashlogSendOther ==
    /\ Ready("crashlog")
    /\ e.event_type \notin {"CRASH", "INFO", "UPTIME", "REBOOT", "VM"}
    /\ calls' = <<>>
    /\ logget' = Patch("crashlog_get_log")
    /\ fn' = "crashlog_send"
    /\ fs0' = fs
    /\ done' = done \cup {"crashlog"}
    /\ UNCHANGED <<srcfile, desfile, loglines, senders, e, fs, keyseq, ret, pass, cursor, line, hours,
                   loop_uptime_event>>

TelemdSendCrash ==
    /\ Ready("telemd")
    /\ e.event_type = "CRASH"
    /\ \E env \in TelemdCrashEnv(e, fs) :
          calls' = telemd_send_crash(e, Patch("telemd_get_log"), fs, env)
    /\ logget' = Patch("telemd_get_log")
    /\ fn' = "telemd_send_crash"
    /\ fs0' = fs
    /\ done' = done \cup {"telemd"}
    /\ UNCHANGED <<srcfile, desfile, loglines, senders, e, fs, keyseq, ret, pass, cursor, line, hours,
                   loop_uptime_event>>

TelemdSendInfo ==
    /\ Ready("telemd")
    /\ e.event_type = "INFO"
    /\ \E env \in TelemdInfoEnv(e, fs) :
          calls' = telemd_send_info(e, Patch("telemd_get_log"), fs, env)
    /\ logget' = Patch("telemd_get_log")
    /\ fn' = "telemd_send_info"
    /\ fs0' = fs
    /\ done' = done \cup {"telemd"}
    /\ UNCHANGED <<srcfile, desfile, loglines, senders, e, fs, keyseq, ret, pass, cursor, line, hours,
                   loop_uptime_event>>

\* max: the hours read stay at or below it
TelemdSendUptimeUpTo(max) ==
    /\ Ready("telemd")
    /\ e.event_type = "UPTIME"
    /\ \E env \in UptimeEnv, h \in hours..max :
          LET r == telemd_send_uptime(h, loop_uptime_event, env)
          IN  /\ calls' = r.calls
              /\ loop_uptime_event' = r.loop
              /\ hours' = h
    /\ logget' = Patch("telemd_get_log")
    /\ fn' = "telemd_send_uptime"
    /\ fs0' = fs
    /\ done' = done \cup {"telemd"}
    /\ UNCHANGED <<srcfile, desfile, loglines, senders, e, fs, keyseq, ret, pass, cursor, line>>

TelemdSendUptime == TelemdSendUptimeUpTo(MaxHours)

TelemdSendReboot ==
    /\ Ready("telemd")
    /\ e.event_type = "REBOOT"
    /\ \E env \in TelemdRebootEnv : calls' = telemd_send_reboot(env)
    /\ logget' = Patch("telemd_get_log")
    /\ fn' = "telemd_send_reboot"
    /\ fs0' = fs
    /\ done' = done \cup {"telemd"}
    /\ UNCHANGED <<srcfile, desfile, loglines, senders, e, fs, keyseq, ret, pass, cursor, line, hours,
                   loop_uptime_event>>

TelemdSendOther ==
    /\ Ready("telemd")
    /\ e.event_type \notin {"CRASH", "INFO", "UPTIME", "REBOOT", "VM"}
    /\ calls' = <<>>
    /\ logget' = Patch("telemd_get_log")
    /\ fn' = "telemd_send"
    /\ fs0' = fs
    /\ done' = done \cup {"telemd"}
    /\ UNCHANGED <<srcfile, desfile, loglines, senders, e, fs, keyseq, ret, pass, cursor, line, hours,
                   loop_uptime_event>>

----------------------------------------------------------------------------
(* Guest event synchronization: refresh_vm_history(sender, fn) scans the   *)
(* guest's history from the sender's cursor and hands each line to fn; the *)
(* cursor moves past a line that fn reports HANDLED, and the scan stops at *)
(* a line it reports DEFERRED or at the end of the history.                *)

\* the scan is over: at the end of the history or at a deferred line
ScanEnds(s, r, cur) == r = VMEVT_DEFER \/ cur = Len(vm_history)

refresh_vm_history(s) ==
    /\ Ready(s)
    /\ e.event_type = "VM"
    /\ logget' = Patch(IF s = "crashlog" THEN "crashlog_get_log"
                       ELSE "telemd_get_log")
    /\ calls' = <<>>
    /\ fn' = "refresh_vm_history"
    /\ fs0' = fs
    /\ ret' = ""
    /\ line' = NoLine
    /\ IF cursor[s] = Len(vm_history)
       THEN pass' = {} /\ done' = done \cup {s}
       ELSE pass' = {s} /\ done' = done
    /\ UNCHANGED <<srcfile, desfile, loglines, senders, e, fs, keyseq, cursor, hours, loop_uptime_event>>

CrashlogSendVm == refresh_vm_history("crashlog")

TelemdSendVm == refresh_vm_history("telemd")

\* The directory of a line that was HANDLED is never read again: it is
\* dropped when the next line is taken up.  What a deferred line left stays.
Leftover(files) ==
    {p \in files : Path(Dir(p.mode, p.key), "crashfile", 0, FALSE) \notin files}

CrashlogNewVmevent ==
    /\ "crashlog" \in pass
    /\ cursor["crashlog"] < Len(vm_history)
    /\ keyseq < MaxKeys
    /\ \E env \in VmEnv :
          LET ln == vm_history[cursor["crashlog"] + 1]
              r == crashlog_new_vmevent(ln, Leftover(fs), keyseq, env)
              cur == IF r.ret = VMEVT_HANDLED THEN cursor["crashlog"] + 1
                     ELSE cursor["crashlog"]
          IN  /\ calls' = r.calls
              /\ fs' = r.fs
              /\ keyseq' = r.keyseq
              /\ ret' = r.ret
              /\ line' = ln
              /\ cursor' = [cursor EXCEPT !["crashlog"] = cur]
              /\ IF ScanEnds("crashlog", r.ret, cur)
                 THEN pass' = {} /\ done' = done \cup {"crashlog"}
                 ELSE pass' = pass /\ done' = done
    /\ fn' = "crashlog_new_vmevent"
    /\ fs0' = Leftover(fs)
    /\ UNCHANGED <<srcfile, desfile, loglines, senders, e, logget, hours, loop_uptime_event>>

TelemdNewVmevent ==
    /\ "telemd" \in pass
    /\ cursor["telemd"] < Len(vm_history)
    /\ \E env \in TelemdVmEnv :
          LET ln == vm_history[cursor["telemd"] + 1]
              r == telemd_new_vmevent(ln, env)
              cur == IF r.ret = VMEVT_HANDLED THEN cursor["telemd"] + 1
                     ELSE cursor["telemd"]
          IN  /\ calls' = r.calls
              /\ ret' = r.ret
              /\ line' = ln
              /\ cursor' = [cursor EXCEPT !["telemd"] = cur]
              /\ IF ScanEnds("telemd", r.ret, cur)
                 THEN pass' = {} /\ done' = done \cup {"telemd"}
                 ELSE pass' = pass /\ done' = done
    /\ fn' = "telemd_new_vmevent"
    /\ fs0' = fs
    /\ UNCHANGED <<srcfile, desfile, loglines, senders, e, logget, fs, keyseq, hours, loop_uptime_event>>

\* host events: CRASH, INFO, UPTIME, REBOOT and unsupported types
Next ==
    \/ Detect
    \/ CrashlogSendCrash
    \/ CrashlogSendInfo
    \/ CrashlogSendUptime
    \/ CrashlogSendReboot
    \/ CrashlogSendOther
    \/ TelemdSendCrash
    \/ TelemdSendInfo
    \/ TelemdSendUptime
    \/ TelemdSendReboot
    \/ TelemdSendOther

Spec == Init /\ [][Next]_vars

\* guest events: the synchronization passes of both senders
NextVm ==
    \/ DetectVm
    \/ CrashlogSendVm
    \/ CrashlogNewVmevent
    \/ TelemdSendVm
    \/ TelemdNewVmevent

SpecVm == Init /\ [][NextVm]_vars

\* get_log_file applied to one source file and one lines setting
Lines == {"a", "b"}
Files == UNION {[1..n -> Lines] : n \in 0..MaxLines}
TailLines == {NULL, "x", "-1", "0", "1", "2", "3", "4"}

InitTail ==
    /\ senders = {"crashlog"}
    /\ e = NoEvent
    /\ logget = [l \in LogIds |-> "crashlog_get_log"]
    /\ fs = {}
    /\ fs0 = {}
    /\ keyseq = 0
    /\ calls = <<>>
    /\ fn = "crashlog_get_log"
    /\ ret = ""
    /\ done = {}
    /\ pass = {}
    /\ cursor = [s \in SenderNames |-> 0]
    /\ line = NoLine
    /\ hours = 0
    /\ loop_uptime_event = 1
    /\ srcfile \in Files
    /\ desfile = NoFile
    /\ loglines \in TailLines

GetLogFile ==
    /\ fn = "crashlog_get_log"
    /\ \E ok \in BOOLEAN :
          /\ desfile' =
                IF get_log_file(loglines) = "get_log_file_tail"
                THEN get_log_file_tail(srcfile, atoi(loglines), ok)
                ELSE get_log_file_complete(srcfile, ok)
          /\ calls' = <<Call(get_log_file(loglines), "", "",
                             atoi(loglines), OkFail(ok), NoPath)>>
    /\ fn' = "get_log_file"
    /\ UNCHANGED <<srcfile, loglines, senders, e, logget, fs, fs0, keyseq,
                   ret, done, pass, cursor, line, hours, loop_uptime_event>>

NextTail == GetLogFile

SpecTail == InitTail /\ [][NextTail]_vars

\* UPTIME events only, over a longer stretch of hours
DetectUptime ==
    \E ev \in {x \in Events : x.event_type = "UPTIME"} : DetectEvent(ev)

TelemdSendUptimeLong == TelemdSendUptimeUpTo(MaxUptime)

NextUptime ==
    \/ DetectUptime
    \/ CrashlogSendUptime
    \/ TelemdSendUptimeLong

SpecUptime == Init /\ [][NextUptime]_vars

\* the dispatch of one crash event or one guest event: the handlers that
\* allocate
DetectCrashOrVm ==
    /\ e = NoEvent
    /\ \E ev \in {x \in Events : x.event_type \in {"CRASH", "VM"}} :
          DetectEvent(ev)

NextRelease ==
    \/ DetectCrashOrVm
    \/ CrashlogSendCrash
    \/ TelemdSendCrash
    \/ CrashlogSendVm
    \/ CrashlogNewVmevent
    \/ TelemdSendVm
    \/ TelemdNewVmevent

SpecRelease == Init /\ [][NextRelease]_vars

----------------------------------------------------------------------------
(* Properties of the host event handlers *)

CrashlogHandlers ==
    {"crashlog_send_crash", "crashlog_send_info", "crashlog_new_vmevent"}

\* the quota checks that crashlog_get_log made and that were answered false
GetterDenied ==
    {i \in At(calls, "space_available") :
        calls[i].a = "crashlog_get_log" /\ calls[i].r = "false"}

\* the calls that collect a log
CollectOps == Strategies \cup {"cal_log_filepath", "config_fmt_to_files"}

\* C1: when the quota check of a crashlog_get_log invocation is answered
\* false, the invocation reports SPACE_FULL and returns: the next call is
\* the SPACE_FULL report for that descriptor, no collecting call follows it
\* before the next invocation, and no path is computed and no strategy runs
\* for that descriptor.
C1_QuotaGatesCollection ==
    fn \in CrashlogHandlers =>
        \A i \in GetterDenied :
            /\ i < Len(calls)
            /\ calls[i + 1] = SpaceFull("crashlog_get_log", calls[i].n)
            /\ i + 2 <= Len(calls) => calls[i + 2].op \notin CollectOps
            /\ \A j \in 1..Len(calls) :
                  calls[j].op \in Strategies \cup {"cal_log_filepath"}
                      => calls[j].n # calls[i].n

\* a crash whose first descriptor was denied and whose second was collected
C1_Witness ==
    /\ fn = "crashlog_send_crash"
    /\ GetterDenied # {}
    /\ \E j \in 1..Len(calls) : calls[j].op \in Strategies /\ calls[j].r = "ok"

\* some quota check was made and every one of them was answered false
QuotaDenied ==
    /\ At(calls, "space_available") # {}
    /\ \A i \in At(calls, "space_available") : calls[i].r = "false"

\* C2: when every quota check made while a CRASH, INFO or VM event is
\* processed is answered false, the crashlog handler leaves the outdir as
\* it found it: no new file, no new directory.
C2_NoFilesWhenFull ==
    (fn \in CrashlogHandlers /\ QuotaDenied) => fs = fs0

\* the SPACE_FULL reports in the trace
SpaceFullReports ==
    {i \in At(calls, "hist_raise_infoerror") : calls[i].a = "SPACE_FULL"}

\* C3: when a quota check is answered false while one event is processed,
\* SPACE_FULL is reported exactly once, however many descriptors the class
\* has.
C3_SpaceFullOnce ==
    (fn \in CrashlogHandlers /\
     \E i \in At(calls, "space_available") : calls[i].r = "false")
        => Cardinality(SpaceFullReports) = 1

\* the records the crashlog handler emitted
Emitted == Ops(calls, "hist_raise_event") + Ops(calls, "hist_raise_uptime")

\* the submissions the telemd handler made (telemd_send_data invocations)
Submitted == Ops(calls, "tm_create_record")

\* the hist_raise_event calls for events of type t
Raised(t) == {i \in At(calls, "hist_raise_event") : calls[i].a = t}

\* the calls of operation op that failed
Failed(op) == {i \in At(calls, op) : calls[i].r = "fail"}

\* the string allocations of the handler that failed / succeeded
FailedStr(names) == {i \in Failed("asprintf") : calls[i].a \in names}
OkStr(name) ==
    {i \in At(calls, "asprintf") \ Failed("asprintf") : calls[i].a = name}

\* the generate_event_id calls for the record named c that gave a key
KeyOk(c) ==
    {i \in At(calls, "generate_event_id") \ Failed("generate_event_id") :
        calls[i].c = c}

\* the records crashlog_send_crash / crashlog_send_info owe: one, unless
\* the handler was stopped before hist_raise_event
RecordsOwed ==
    IF \/ Failed("reclassify") # {}
       \/ Failed("generate_event_id") # {}
       \/ Failed("generate_log_dir") # {}
       \/ FailedStr({"trfile", "des", "src"}) # {}
    THEN 0 ELSE 1

RECURSIVE Listed(_)
\* the files the directory scans at the positions S handed back
Listed(S) ==
    IF S = {} THEN 0
    ELSE LET i == CHOOSE x \in S : TRUE
         IN  calls[i].n + Listed(S \ {i})

\* the class string and the event id of the telemd handler were derived
TelemdDerived ==
    FailedStr({"class"}) = {} /\ Failed("generate_eventid256") = {}

\* the submissions the getters owe: one per listed file, one per
\* placeholder text that was built
GetterSubmissions ==
    Listed(At(calls, "ac_scandir") \ Failed("ac_scandir")) +
    Cardinality(OkStr("msg"))

\* the submission owed for the trigger file: one when a copy of it exists
TriggerSubmissions ==
    Cardinality({i \in At(calls, "file_exists") : calls[i].r = "true"})

\* every descriptor of the class was handed to the getter: one directory
\* scan each when the event has a directory, one placeholder text each when
\* it has none
EveryDescriptor(ls) ==
    IF e.dir = NoDir
    THEN Cardinality({i \in At(calls, "asprintf") : calls[i].a = "msg"})
             = Len(ls)
    ELSE Ops(calls, "ac_scandir") = Len(ls)

\* the trigger file is looked for on channel inotify only: first in the
\* event's directory, then at its original path
TriggerLookedFor ==
    LET at(what) == {i \in At(calls, "file_exists") : calls[i].a = what}
        str(what) == {i \in At(calls, "asprintf") : calls[i].a = what}
    IN  /\ str("des") # {} <=> e.channel = "inotify"
        /\ at("des") # {} <=> OkStr("des") # {}
        /\ str("ori") # {} <=> \E i \in at("des") : calls[i].r = "false"
        /\ at("ori") # {} <=> OkStr("ori") # {}

\* telemd_send_reboot: the software update was seen, one of its strings
\* failed, the strings with class c
SwUpdated == \E i \in At(calls, "swupdated") : calls[i].r = "true"
SwFailed ==
    \E i \in Failed("asprintf") :
        calls[i].c = "clearlinux/swupdate/-" \/ calls[i].a = "content"
ClassStr(c) == {i \in At(calls, "asprintf") : calls[i].c = c}

\* a step in which telemd_send_uptime takes the event
TelemdUptimeStep ==
    e.event_type = "UPTIME" /\ "telemd" \notin done /\ "telemd" \in done'

\* what telemd_send_uptime owes: one submission when the uptime was read,
\* the hours reached the threshold of the current interval and both strings
\* were built
UptimeSubmission ==
    TelemdUptimeStep =>
        Submitted' =
            IF /\ Failed("get_uptime_string")' = {}
               /\ hours' \div atoi(conf_uptime.eventhours) >= loop_uptime_event
               /\ Failed("asprintf")' = {}
            THEN 1 ELSE 0

\* C4 (as stated): each sender's handler of a non-VM event emits exactly
\* one record (crashlog) or makes exactly one submission (telemd).
C4_ExactlyOne ==
    /\ fn \in {"crashlog_send_crash", "crashlog_send_info",
               "crashlog_send_uptime", "crashlog_send_reboot"}
          => Emitted = 1
    /\ fn \in {"telemd_send_crash", "telemd_send_info", "telemd_send_uptime",
               "telemd_send_reboot"}
          => Submitted = 1

\* the number of records / submissions of each handler, as a function of
\* what failed
EmissionCounts ==
    /\ fn \in {"crashlog_send_crash", "crashlog_send_info"}
          => /\ Emitted = RecordsOwed
             /\ Ops(calls, "hist_raise_uptime") = 0
    /\ fn = "crashlog_send_uptime"
          => Ops(calls, "hist_raise_uptime") = 1 /\ Emitted = 1
    /\ fn = "crashlog_send_reboot"
          => /\ Ops(calls, "hist_raise_uptime") = 0
             /\ Cardinality(Raised("INFO")) = Cardinality(KeyOk("SWUPDATE"))
             /\ Cardinality(Raised("REBOOT")) = Cardinality(KeyOk("reason"))
             /\ Cardinality(KeyOk("SWUPDATE")) <= 1
             /\ Cardinality(KeyOk("reason")) <= 1
             /\ Emitted = Cardinality(Raised("REBOOT") \cup Raised("INFO"))
             /\ \A i \in Raised("INFO"), j \in Raised("REBOOT") : i < j
             /\ (\E i \in At(calls, "generate_event_id") :
                    calls[i].c = "reason")
                   <=> ~\E i \in Failed("generate_event_id") :
                           calls[i].c = "SWUPDATE"
    /\ fn = "telemd_send_reboot"
          => /\ Submitted = (IF SwUpdated /\ ~SwFailed THEN 1 ELSE 0) +
                            (IF ClassStr("clearlinux/reboot/reason")
                                    \ Failed("asprintf") # {}
                             THEN 1 ELSE 0)
             /\ ClassStr("clearlinux/reboot/reason") # {} <=> ~SwFailed
    /\ fn \in {"telemd_send_crash", "telemd_send_info"}
          => IF ~TelemdDerived THEN Submitted = 0
             ELSE /\ Submitted = GetterSubmissions + TriggerSubmissions
                  /\ fn = "telemd_send_crash"
                        => /\ EveryDescriptor(conf_crash[e.private].log)
                           /\ TriggerLookedFor
                  /\ fn = "telemd_send_info"
                        => /\ EveryDescriptor(conf_info[e.private].log)
                           /\ TriggerSubmissions = 0
    /\ fn \in {"crashlog_send", "telemd_send"} => Emitted = 0 /\ Submitted = 0

\* C4 (amended): the crashlog handler emits one record for a CRASH or INFO
\* event unless reclassification, a string of the handler, the key or the
\* directory fails, and then none; one uptime record for UPTIME; for REBOOT
\* one SWUPDATE record when the build changed and its key was generated,
\* then one REBOOT record when its key was generated. The telemd handler
\* makes one submission for UPTIME when the uptime was read, the threshold
\* reached and both strings built, else none; for REBOOT one for the update
\* and one for the reboot, each when its strings were built; for CRASH and
\* INFO, once class and event id are derived, one per file each directory
\* scan lists, one per placeholder text built and, for CRASH on inotify,
\* one for the trigger file when a copy of it exists. An unsupported event
\* type emits nothing.
C4_Emissions == []EmissionCounts /\ [][UptimeSubmission]_vars

\* a reboot after a software update: two records
C4_Witness == fn = "crashlog_send_reboot" /\ Emitted = 2

TmOps ==
    {"tm_create_record", "tm_set_event_id", "tm_set_payload",
     "tm_send_record", "tm_free_record"}

\* the telemetry calls of a trace
TmTrace(s) == SelectSeq(s, LAMBDA c : c.op \in TmOps)

\* the last position of the record created at position i of t
SegEnd(t, i) ==
    LET nx == {j \in At(t, "tm_create_record") : j > i}
    IN  IF nx = {} THEN Len(t)
        ELSE (CHOOSE j \in nx : \A k \in nx : j <= k) - 1

\* the place of a telemetry call in create, (setEventId), setPayload, send,
\* release
Rank(op) ==
    CASE op = "tm_create_record" -> 1
      [] op = "tm_set_event_id" -> 2
      [] op = "tm_set_payload" -> 3
      [] op = "tm_send_record" -> 4
      [] op = "tm_free_record" -> 5

TelemdHandlers ==
    {"telemd_send_crash", "telemd_send_info", "telemd_send_uptime",
     "telemd_send_reboot", "telemd_new_vmevent"}

\* C5: every telemetry call belongs to a record; the calls on one record
\* come in the order create, (setEventId), setPayload, send, release, each
\* at most once; send happens only after create and setPayload succeeded;
\* nothing but the release follows a failed step; a handle that was
\* created is released exactly once, a failed create releases nothing.
C5_RecordLifecycle ==
    fn \in TelemdHandlers =>
        LET t == TmTrace(calls)
        IN  /\ t # <<>> => t[1].op = "tm_create_record"
            /\ \A i \in At(t, "tm_create_record") :
                  LET seg == i..SegEnd(t, i)
                  IN  /\ \A p, q \in seg :
                            p < q => Rank(t[p].op) < Rank(t[q].op)
                      /\ \A p \in seg :
                            t[p].op = "tm_send_record" =>
                                /\ t[i].r = "ok"
                                /\ \E q \in i..p :
                                      /\ t[q].op = "tm_set_payload"
                                      /\ t[q].r = "ok"
                      /\ \A p \in seg :
                            t[p].r = "fail" =>
                                \A q \in seg :
                                    q > p => t[q].op = "tm_free_record"
                      /\ Cardinality({p \in seg :
                                         t[p].op = "tm_free_record"})
                            = (IF t[i].r = "ok" THEN 1 ELSE 0)

\* a submission whose payload was rejected, followed by the release, and a
\* later submission that went through
C5_Witness ==
    /\ fn \in TelemdHandlers
    /\ \E i \in 1..(Len(calls) - 1) :
          /\ calls[i].op = "tm_set_payload"
          /\ calls[i].r = "fail"
          /\ calls[i + 1].op = "tm_free_record"
          /\ \E j \in (i + 1)..Len(calls) :
                calls[j].op = "tm_send_record" /\ calls[j].r = "ok"

----------------------------------------------------------------------------
(* Properties of the guest event handlers *)

VmHandlers == {"crashlog_new_vmevent", "telemd_new_vmevent"}


\* C6: a guest line that does not convert into five fields is HANDLED by
\* either handler without any effect: no call is made (no key or event id
\* derived, no directory created, no record raised, nothing submitted) and
\* the outdir is left as it was.
C6_UnparsableHandled ==
    (fn \in VmHandlers /\ sscanf(line) # 5) =>
        /\ ret = VMEVT_HANDLED
        /\ calls = <<>>
        /\ fs = fs0

\* the crashlog handler was given the line of four fields
C6_Witness ==
    /\ fn = "crashlog_new_vmevent"
    /\ sscanf(line) = 4
    /\ ret = VMEVT_HANDLED

\* C7: when the dump of the guest's log directory fails, the outcome is
\* HANDLED if no file was recovered and DEFERRED if at least one was; in
\* both cases no manifest is written and no history record is raised.
C7_ExtractionFailure ==
    fn = "crashlog_new_vmevent" =>
        \A i \in Failed("e2fs_dump_dir_by_dpath") :
            /\ calls[i].n = 0 => ret = VMEVT_HANDLED
            /\ calls[i].n >= 1 => ret = VMEVT_DEFER
            /\ Ops(calls, "generate_crashfile") = 0
            /\ Ops(calls, "hist_raise_event") = 0
            /\ \A p \in fs \ fs0 : p.name # "crashfile"

\* a dump that failed after recovering files, which stay in the directory
C7_Witness ==
    /\ fn = "crashlog_new_vmevent"
    /\ \E i \in Failed("e2fs_dump_dir_by_dpath") : calls[i].n >= 1
    /\ ret = VMEVT_DEFER
    /\ fs # fs0

\* the derivations of the class string, the key and the event id that
\* failed
DerivationFailed ==
    Failed("generate_event_id") \cup Failed("generate_eventid256") \cup
    {i \in Failed("asprintf") : calls[i].a = "class"}

\* C8: for a line that parsed, when the class string, the key or the event
\* id cannot be derived, the outcome is DEFERRED and nothing is emitted: no
\* directory, no manifest, no history record, no submission.
C8_DerivationFailure ==
    (fn \in VmHandlers /\ sscanf(line) = 5 /\ DerivationFailed # {}) =>
        /\ ret = VMEVT_DEFER
        /\ fs = fs0
        /\ Ops(calls, "generate_log_dir") = 0
        /\ Ops(calls, "generate_crashfile") = 0
        /\ Ops(calls, "hist_raise_event") = 0
        /\ Submitted = 0

\* the key could not be generated for a line the crashlog handler parsed
C8_Witness ==
    /\ fn = "crashlog_new_vmevent"
    /\ sscanf(line) = 5
    /\ Failed("generate_event_id") # {}
    /\ ret = VMEVT_DEFER

\* no log directory was found for the line: it names none, or find_file
\* found none under the outdir
NoLogDir ==
    \/ strstr(line.rest, <<"/logs/">>) = 0
    \/ \E i \in At(calls, "find_file") : calls[i].r = "none"

\* the listing and extracting calls
ListingOps == Ops(calls, "lsdir") + Ops(calls, "e2fs_dump_dir_by_dpath")

\* C9 (as stated): for a line that parsed and for which no log directory
\* was found, the handler emits exactly one "no logs" record, lists no
\* directory, and the outcome is HANDLED.
C9_NoLogsHandled ==
    (fn \in VmHandlers /\ sscanf(line) = 5 /\ NoLogDir) =>
        /\ IF fn = "telemd_new_vmevent" THEN Submitted = 1
           ELSE Ops(calls, "hist_raise_event") = 1
        /\ ListingOps = 0
        /\ ret = VMEVT_HANDLED

\* the submissions that went through
Sent == {i \in At(calls, "tm_send_record") : calls[i].r = "ok"}

\* C9 (amended): for a line that parsed and for which no log directory was
\* found, the handler lists and extracts no directory and emits at most
\* one record.  telemd_new_vmevent makes exactly one "no logs" submission
\* once the class string and the event id were derived, and the outcome is
\* HANDLED if that submission went through and DEFERRED if it failed.
\* crashlog_new_vmevent writes one manifest and raises one history record,
\* with outcome HANDLED, once the quota check passed and the key and the
\* directory were generated; when the quota check fails it emits nothing
\* and the outcome is HANDLED.
C9_NoLogs ==
    (fn \in VmHandlers /\ sscanf(line) = 5 /\ NoLogDir) =>
        /\ ListingOps = 0
        /\ fn = "telemd_new_vmevent" =>
              /\ Submitted = (IF \E i \in At(calls, "generate_eventid256") :
                                     calls[i].r = "ok"
                              THEN 1 ELSE 0)
              /\ \A i \in At(calls, "tm_set_payload") : calls[i].a = "no logs"
              /\ Submitted = 1 =>
                    ret = (IF Sent # {} THEN VMEVT_HANDLED ELSE VMEVT_DEFER)
        /\ fn = "crashlog_new_vmevent" =>
              /\ Ops(calls, "hist_raise_event")
                    = (IF \E i \in At(calls, "generate_log_dir") :
                              calls[i].r = "ok"
                       THEN 1 ELSE 0)
              /\ Ops(calls, "generate_crashfile")
                    = Ops(calls, "hist_raise_event")
              /\ Ops(calls, "hist_raise_event") = 1 => ret = VMEVT_HANDLED
              /\ SpaceFullReports # {} =>
                    ret = VMEVT_HANDLED /\ Ops(calls, "hist_raise_event") = 0

\* find_file found no directory and the "no logs" submission failed
C9_Witness ==
    /\ fn = "telemd_new_vmevent"
    /\ sscanf(line) = 5
    /\ \E i \in At(calls, "find_file") : calls[i].r = "none"
    /\ Submitted = 1
    /\ Sent = {}
    /\ ret = VMEVT_DEFER

\* lsdir listed exactly the two self-references
ListedTwo == \E i \in At(calls, "lsdir") : calls[i].n = 2

\* C10 (as stated): when the listing of the log directory holds exactly
\* two entries, exactly one "no logs under" record is submitted and the
\* outcome is HANDLED.
C10_NoLogsUnderHandled ==
    (fn = "telemd_new_vmevent" /\ ListedTwo) =>
        /\ Submitted = 1
        /\ Sent # {}
        /\ ret = VMEVT_HANDLED

\* C10 (amended): when the listing of the log directory holds exactly two
\* entries, the "no logs under" text is built once; if that fails nothing
\* is submitted and the outcome is DEFERRED; otherwise exactly one
\* submission, of that text, is made and the outcome is HANDLED if it went
\* through and DEFERRED if it failed.
C10_NoLogsUnder ==
    (fn = "telemd_new_vmevent" /\ ListedTwo) =>
        LET text == {i \in At(calls, "asprintf") :
                        calls[i].a = "no logs under"}
        IN  /\ Cardinality(text) = 1
            /\ Submitted = (IF \A i \in text : calls[i].r = "ok"
                            THEN 1 ELSE 0)
            /\ \A i \in At(calls, "tm_set_payload") :
                  calls[i].a = "no logs under"
            /\ ret = (IF Sent # {} THEN VMEVT_HANDLED ELSE VMEVT_DEFER)

\* the one submission was made and failed
C10_Witness ==
    /\ fn = "telemd_new_vmevent"
    /\ ListedTwo
    /\ Submitted = 1
    /\ Sent = {}
    /\ ret = VMEVT_DEFER

----------------------------------------------------------------------------
(* Properties of the listing loop of telemd_new_vmevent *)

\* the positions where the loop takes up a listed entry
Entries == {i \in At(calls, "strstr") : calls[i].c = "/."}

\* the entries that are not the self-references "." and ".."
RealEntries ==
    {i \in Entries :
        calls[i].a \notin {Name(EntryPath(d, SelfRefs[k])) :
                              d \in VmLogPaths, k \in 1..Len(SelfRefs)}}

\* the last call made for the entry taken up at position i
EntryEnd(i) ==
    LET nx == {j \in Entries : j > i}
    IN  IF nx = {} THEN Len(calls)
        ELSE (CHOOSE j \in nx : \A k \in nx : j <= k) - 1

\* the submissions attempted, and those that went through, for an entry
Attempts(i) == {j \in At(calls, "tm_create_record") : i < j /\ j <= EntryEnd(i)}
Delivered(i) == {j \in Sent : i < j /\ j <= EntryEnd(i)}

\* C11: for a listing with real entries, a submission is attempted for
\* every real entry, also after an earlier one failed, and the outcome is
\* HANDLED exactly when the submission of every real entry went through,
\* DEFERRED otherwise.
C11_EveryEntryOrDeferred ==
    (fn = "telemd_new_vmevent" /\ RealEntries # {}) =>
        /\ \A i \in RealEntries : Attempts(i) # {}
        /\ ret = (IF \A i \in RealEntries : Delivered(i) # {}
                  THEN VMEVT_HANDLED ELSE VMEVT_DEFER)

\* C12: for a listing with real entries, exactly one submission is made
\* per real entry, whatever its name, and none for "." and "..".
C12_OnePerRealEntry ==
    (fn = "telemd_new_vmevent" /\ RealEntries # {}) =>
        /\ \A i \in RealEntries : Cardinality(Attempts(i)) = 1
        /\ \A i \in Entries \ RealEntries : Attempts(i) = {}
        /\ Submitted = Cardinality(RealEntries)

----------------------------------------------------------------------------
(* Retry of a deferred guest line *)

\* the directories of the history records raised by the invocation
Recorded == {Dir(calls[i].p.mode, calls[i].p.key) :
                i \in At(calls, "hist_raise_event")}

\* C13: once crashlog_new_vmevent has archived a line, whether at the first
\* attempt or at the retry of a deferred one, the outdir holds for that
\* line what a first-pass success holds: the directory of the record and
\* its files, and nothing from an earlier attempt.
C13_RetryLeavesNothingOver ==
    (fn = "crashlog_new_vmevent" /\ ret = VMEVT_HANDLED /\ Recorded # {}) =>
        \A p \in fs : Dir(p.mode, p.key) \in Recorded

----------------------------------------------------------------------------
(* Delivery of guest lines *)

\* the line names a log directory of the guest, and the dump did not
\* report it missing
HasLogs ==
    /\ sscanf(line) = 5
    /\ strstr(line.rest, <<"/logs/">>) # 0
    /\ \A i \in Failed("e2fs_dump_dir_by_dpath") : calls[i].n # 0

\* C14: a parsable line that has something to ship is marked HANDLED, and
\* so passed over for good, only by an invocation that delivered it: the
\* crashlog handler raised its history record for the archived directory,
\* the telemd handler got every real entry of the directory submitted.
C14_HandledOnlyAfterDelivery ==
    /\ (fn = "crashlog_new_vmevent" /\ HasLogs /\ ret = VMEVT_HANDLED)
          => /\ Recorded # {}
             /\ \A d \in Recorded : DirPath(d) \in fs
    /\ (fn = "telemd_new_vmevent" /\ HasLogs /\ ret = VMEVT_HANDLED
        /\ RealEntries # {})
          => \A i \in RealEntries : Delivered(i) # {}

----------------------------------------------------------------------------
(* Properties of crashlog_send_crash and crashlog_send_info *)

\* C15: when reclassify fails, crashlog_send_crash stops: no key is
\* generated, no directory or manifest is created, no log is collected, no
\* record is raised, the outdir is unchanged, and the event keeps the class
\* it was detected with and has no directory.
C15_ReclassifyFailureAborts ==
    (fn = "crashlog_send_crash" /\ Failed("reclassify") # {}) =>
        /\ \A i \in 1..Len(calls) : calls[i].op \in {"asprintf", "reclassify", "free"}
        /\ Ops(calls, "generate_event_id") = 0
        /\ Ops(calls, "generate_log_dir") = 0
        /\ Ops(calls, "generate_crashfile") = 0
        /\ Ops(calls, "space_available") = 0
        /\ \A i \in 1..Len(calls) : calls[i].op \notin CollectOps
        /\ Emitted = 0
        /\ fs = fs0
        /\ e.private \in 1..Len(conf_crash)
        /\ \A i \in Failed("reclassify") :
              conf_crash[e.private].name = calls[i].a
        /\ e.dir = NoDir

\* reclassify failed for a crash detected on channel inotify
C15_Witness ==
    /\ fn = "crashlog_send_crash"
    /\ Failed("reclassify") # {}
    /\ e.channel = "inotify"

\* the descriptors whose getter ran, in the order of the runs
IsGetterRun(c) == c.op = "space_available" /\ c.a = "crashlog_get_log"
GetterRuns ==
    LET g == SelectSeq(calls, IsGetterRun)
    IN  [i \in 1..Len(g) |-> g[i].n]

\* the descriptors of the class the handled event has
ClassLogs ==
    IF fn = "crashlog_send_crash" THEN conf_crash[e.private].log
    ELSE IF fn = "crashlog_send_info" THEN conf_info[e.private].log
    ELSE <<>>

\* some descriptor's collection failed: its getter was denied by the quota,
\* a destination path could not be built, or a copy, drain or capture failed
CollectionFailed ==
    \/ GetterDenied # {}
    \/ Failed("cal_log_filepath") # {}
    \/ \E op \in Strategies : Failed(op) # {}

\* a handler with several descriptors got as far as collecting and one
\* collection failed
SeveralWithFailure ==
    /\ fn \in {"crashlog_send_crash", "crashlog_send_info"}
    /\ At(calls, "generate_log_dir") # {} /\ Failed("generate_log_dir") = {}
    /\ Len(ClassLogs) >= 2
    /\ CollectionFailed

\* C16 as stated: with several descriptors and one collection failing, the
\* getter of every descriptor still runs, in declaration order, and exactly
\* one history record is raised.
C16_SiblingsAndOneRecord ==
    SeveralWithFailure =>
        /\ GetterRuns = ClassLogs
        /\ Ops(calls, "hist_raise_event") = 1

\* C16 (amended): with several descriptors and one collection failing, the
\* getter of every descriptor still runs, in declaration order, and exactly
\* one history record is raised, unless the handler cannot allocate the
\* paths of the trigger file copy, when it raises none.
C16_SiblingsAttempted ==
    SeveralWithFailure =>
        /\ GetterRuns = ClassLogs
        /\ Ops(calls, "hist_raise_event") =
              (IF Failed("asprintf") # {} THEN 0 ELSE 1)

\* the first of two descriptors fails, the second is collected, and the
\* record is raised
C16_Witness ==
    /\ SeveralWithFailure
    /\ \E i \in GetterDenied \cup Failed("get_log_file_complete") :
          calls[i].n = ClassLogs[1]
    /\ \E p \in fs \ fs0 : p.name = conf_log[ClassLogs[2]].name
    /\ Ops(calls, "hist_raise_event") = 1

\* the scenario: a CRASH on channel inotify, of a class with two file
\* descriptors that reclassify answers unchanged, handled with every call
\* succeeding and both quota checks passing
TwoFileLogs(c) ==
    /\ Len(conf_crash[c].log) = 2
    /\ \A i \in 1..2 : conf_log[conf_crash[c].log[i]].type = "file"
    /\ \A i \in 1..2 : ~conf_log[conf_crash[c].log[i]].fmt
AllSucceeded ==
    /\ \A i \in 1..Len(calls) : calls[i].r \notin {"fail", "oom", "false"}
    /\ At(calls, "hist_raise_infoerror") = {}
Scenario1 ==
    /\ fn = "crashlog_send_crash"
    /\ e.channel = "inotify"
    /\ TwoFileLogs(e.private)
    /\ \E i \in At(calls, "reclassify") :
          calls[i].a = conf_crash[e.private].name
    /\ At(calls, "do_copy_tail") # {}
    /\ AllSucceeded

\* the files the handler left in directory d
LeftIn(d) == {p \in fs \ fs0 : InDir(p, d)}
\* the copied logs among them
LogsIn(d) ==
    {p \in LeftIn(d) :
        \E i \in 1..Len(ClassLogs) : p.name = conf_log[ClassLogs[i]].name}
\* one directory was created and one record raised, for the key derived in
\* this invocation
OneDirOneRecord ==
    /\ Cardinality({p \in fs \ fs0 : p.name = "."}) = 1
    /\ DirPath(e.dir) \in fs \ fs0
    /\ Ops(calls, "generate_event_id") = 1
    /\ Ops(calls, "hist_raise_event") = 1
    /\ \A i \in At(calls, "hist_raise_event") :
          /\ calls[i].p = DirPath(e.dir)
          /\ calls[i].n = e.dir.key
          /\ calls[i].n = keyseq
          /\ \A j \in At(calls, "generate_event_id") :
                j < i /\ calls[j].n = calls[i].n

\* C17 as stated: scenario 1 leaves one directory holding exactly the two
\* copied logs and the manifest, and raises one record with the new key.
C17_TwoLogsAndManifestOnly ==
    Scenario1 =>
        /\ OneDirOneRecord
        /\ Cardinality(LogsIn(e.dir)) = 2
        /\ Path(e.dir, "crashfile", 0, FALSE) \in LeftIn(e.dir)
        /\ Cardinality(LeftIn(e.dir)) = 3

\* C17 (amended): scenario 1 leaves one directory holding exactly the two
\* copied logs, the manifest and the copy of the trigger file, and raises
\* one record with the new key.
C17_TwoLogsManifestAndTrigger ==
    Scenario1 =>
        /\ OneDirOneRecord
        /\ Cardinality(LogsIn(e.dir)) = 2
        /\ Path(e.dir, "crashfile", 0, FALSE) \in LeftIn(e.dir)
        /\ Path(e.dir, e.path, 0, FALSE) \in LeftIn(e.dir)
        /\ Cardinality(LeftIn(e.dir)) = 4

\* scenario 1 has run and the record is raised
C17_Witness ==
    /\ Scenario1
    /\ Ops(calls, "hist_raise_event") = 1
    /\ Ops(calls, "get_log_file_complete") = 1
    /\ Ops(calls, "get_log_file_tail") = 1

----------------------------------------------------------------------------
(* Properties of crashlog_send and telemd_send *)

Supported == {"CRASH", "INFO", "UPTIME", "REBOOT", "VM"}

\* a step in which a sender's send function takes an event of an
\* unsupported type
UnsupportedStep ==
    /\ e # NoEvent
    /\ e.event_type \notin Supported
    /\ done' # done /\ done \subseteq done'

\* what such a step leaves alone apart from the descriptors: no call is
\* made (no record, no submission), no directory or file appears, and the
\* event, the key counter and the sender table are as they were
NothingProduced ==
    /\ calls' = <<>>
    /\ fs' = fs
    /\ e' = e
    /\ keyseq' = keyseq
    /\ senders' = senders
    /\ cursor' = cursor
    /\ hours' = hours
    /\ loop_uptime_event' = loop_uptime_event

\* C18 as stated: a send function given an unsupported event type produces
\* nothing and modifies neither the event nor the configuration, the get of
\* every log descriptor included.
C18_NoSideEffects ==
    [][UnsupportedStep => NothingProduced /\ logget' = logget]_vars

----------------------------------------------------------------------------
(* Properties of get_log_file *)

\* get_log_file has run and the helpers it called succeeded
Copied == fn = "get_log_file" /\ Failed(calls[1].op) = {}
\* the lines setting as a number, and the source's line count
N == atoi(loglines)
TotalLines == Len(srcfile)
\* the source from line start on
FromLine(start) == [i \in 1..(TotalLines - start + 1) |-> srcfile[start + i - 1]]

\* the artifact is the last min(N, totalLines) lines of the source
IsTail ==
    /\ desfile.exists
    /\ Len(desfile.data) = Min(N, TotalLines)
    /\ desfile.data = FromLine(Max(TotalLines - N, 0) + 1)

\* without a positive lines setting the artifact is the whole source
WholeWhenNoTail ==
    (Copied /\ (loglines = NULL \/ N <= 0)) =>
        desfile.exists /\ desfile.data = srcfile

\* C19 as stated: with lines = N > 0 the artifact runs from line
\* max(totalLines - N, 0) + 1 of the source to its end, so that it is the
\* last min(N, totalLines) lines; with no or a non-positive lines setting
\* the artifact is the whole source.
C19_TailOfAnySource ==
    /\ (Copied /\ loglines # NULL /\ N > 0) => IsTail
    /\ WholeWhenNoTail

\* C19 (amended): the same for a source that has at least one line; for a
\* source without lines and N > 0 no artifact is written.
C19_TailOfNonEmptySource ==
    /\ (Copied /\ loglines # NULL /\ N > 0 /\ TotalLines > 0) => IsTail
    /\ (Copied /\ loglines # NULL /\ N > 0 /\ TotalLines = 0) =>
          ~desfile.exists
    /\ WholeWhenNoTail

\* a tail shorter than its source has been written
C19_Witness ==
    /\ Copied
    /\ N = 2
    /\ TotalLines = 3
    /\ desfile = File(<<srcfile[2], srcfile[3]>>)
    /\ srcfile[1] # srcfile[2]

----------------------------------------------------------------------------
(* Release of what a handler allocates *)

Allocating ==
    {"telemd_new_vmevent", "crashlog_new_vmevent", "crashlog_send_crash"}

\* a string or listing entry: the variable that holds it, its index in an
\* array, and the call that allocated it
Mem(what, n, at) == [what |-> what, n |-> n, at |-> at]

\* what the calls of the trace allocated
Allocated ==
    {Mem(calls[i].a, 0, i) : i \in At(calls, "asprintf") \ Failed("asprintf")}
    \cup {Mem("key", 0, i) :
             i \in At(calls, "generate_event_id") \ Failed("generate_event_id")}
    \cup {Mem("eventid", 0, i) :
             i \in At(calls, "generate_eventid256")
                   \ Failed("generate_eventid256")}
    \cup {Mem("dir", 0, i) :
             i \in At(calls, "generate_log_dir") \ Failed("generate_log_dir")}
    \cup {Mem("vmlogpath", 0, i) :
             i \in {j \in At(calls, "find_file") : calls[j].r = "found"}}
    \cup UNION {{Mem("files", k, i) : k \in 0..(calls[i].n - 1)} :
                   i \in At(calls, "lsdir")}
    \cup UNION {{Mem(d, 0, i) : d \in {"data0", "data1", "data2"}} :
                   i \in At(calls, "reclassify") \ Failed("reclassify")}

\* the free calls made on m after its allocation, and all of them
Releases(m) ==
    {i \in At(calls, "free") :
        calls[i].a = m.what /\ calls[i].n = m.n /\ i > m.at}
FreesOf(what, n) ==
    {i \in At(calls, "free") : calls[i].a = what /\ calls[i].n = n}

\* no variable is passed to free twice
NoDoubleFree ==
    \A i \in At(calls, "free") :
        Cardinality(FreesOf(calls[i].a, calls[i].n)) = 1

\* telemetry handles: at every point of the trace the handles freed are as
\* many as those created, or one fewer while a submission is under way, and
\* at the end as many
Created(k) ==
    Cardinality({i \in At(calls, "tm_create_record") \ Failed("tm_create_record") :
                    i <= k})
Freed(k) == Cardinality({i \in At(calls, "tm_free_record") : i <= k})
HandlesReleased ==
    /\ \A k \in 1..Len(calls) : Freed(k) \in {Created(k) - 1, Created(k)}
    /\ Freed(Len(calls)) = Created(Len(calls))

\* the directory string crashlog_send_crash leaves in e->dir
KeptByEvent(m) == fn = "crashlog_send_crash" /\ m.what = "dir"

\* C20 as stated: when a guest-event handler or the crash handler returns,
\* every string, listing entry and telemetry handle it allocated has been
\* released exactly once.
C20_AllReleasedOnce ==
    fn \in Allocating =>
        /\ \A m \in Allocated : Cardinality(Releases(m)) = 1
        /\ NoDoubleFree
        /\ HandlesReleased

\* C20 (amended): the same, except that crashlog_send_crash does not release
\* the directory string it leaves in e->dir.
C20_ReleasedOnceButEventDir ==
    fn \in Allocating =>
        /\ \A m \in Allocated :
              IF KeptByEvent(m)
              THEN FreesOf(m.what, m.n) = {} /\ e.dir # NoDir
              ELSE Cardinality(Releases(m)) = 1
        /\ NoDoubleFree
        /\ HandlesReleased

\* an early failure: telemd_new_vmevent built the class, found the log
\* directory, and failed to derive the event id
C20_Witness ==
    /\ fn = "telemd_new_vmevent"
    /\ Failed("generate_eventid256") # {}
    /\ \E m \in Allocated : m.what = "class"
    /\ \E m \in Allocated : m.what = "vmlogpath"
    /\ ret = VMEVT_DEFER

----------------------------------------------------------------------------
(* What telemd_send_crash sees of the event crashlog_send_crash handled *)

\* a step in which telemd_send_crash takes the event
TelemdCrashStep ==
    /\ e.event_type = "CRASH"
    /\ "telemd" \notin done
    /\ "telemd" \in done'

\* crashlog_send_crash has handled the event, its reclassify call
\* succeeded, its generate_log_dir call succeeded
CrashlogRanFirst == fn = "crashlog_send_crash"
Reclassified ==
    CrashlogRanFirst /\ At(calls, "reclassify") \ Failed("reclassify") # {}
DirAssigned ==
    CrashlogRanFirst /\
    At(calls, "generate_log_dir") \ Failed("generate_log_dir") # {}

\* the name of the class the event was detected with
OriginalClass ==
    IF CrashlogRanFirst /\ At(calls, "reclassify") # {}
    THEN calls[CHOOSE i \in At(calls, "reclassify") : TRUE].a
    ELSE conf_crash[e.private].name

\* in a trace of telemd_send_crash: the class string was built and the event
\* id derived; the class submitted under; the descriptors whose directory
\* scan ran and those whose placeholder text was built, in order
Derived(t) == Len(t) >= 2 /\ t[1].r = "ok" /\ t[2].r = "ok"
IsScan(c) == c.op = "ac_scandir"
IsMsg(c) == c.op = "asprintf" /\ c.a = "msg"
ScanNames(t) ==
    [i \in 1..Len(SelectSeq(t, IsScan)) |-> SelectSeq(t, IsScan)[i].a]
MsgNames(t) ==
    [i \in 1..Len(SelectSeq(t, IsMsg)) |-> SelectSeq(t, IsMsg)[i].c]
LogNames(name) ==
    LET c == CHOOSE x \in 1..Len(conf_crash) : conf_crash[x].name = name
    IN  [i \in 1..Len(conf_crash[c].log) |-> conf_log[conf_crash[c].log[i]].name]
CrashClass(name) == "clearlinux/crash/" \o name

\* C21 as stated: telemd_send_crash uses the reclassified class and scans
\* the event's directory only when crashlog_send_crash ran first and both
\* reclassified and created the directory; when telemd runs first or the
\* event has no directory it uses the original class and builds one
\* placeholder per descriptor of that class.
C21_OriginalClassWithoutDir ==
    [][(TelemdCrashStep /\ Derived(calls')) =>
          /\ (calls'[1].c # CrashClass(OriginalClass) \/ ScanNames(calls') # <<>>)
                => (Reclassified /\ DirAssigned)
          /\ (~CrashlogRanFirst \/ e.dir = NoDir) =>
                /\ calls'[1].c = CrashClass(OriginalClass)
                /\ ScanNames(calls') = <<>>
                /\ MsgNames(calls') = LogNames(OriginalClass)]_vars

\* C21 (amended): telemd_send_crash uses the class the event holds, which is
\* the answer of reclassify once crashlog_send_crash ran first and
\* reclassified, whether or not a directory followed, and the original
\* class otherwise; it scans the event's directory, once per descriptor of
\* that class, only when crashlog_send_crash assigned one, and without a
\* directory it builds one placeholder per descriptor of that class.
C21_TelemdSeesEvent ==
    [][(TelemdCrashStep /\ Derived(calls')) =>
          /\ calls'[1].c = CrashClass(conf_crash[e.private].name)
          /\ Reclassified =>
                \A i \in At(calls, "reclassify") : e.private = calls[i].n
          /\ ~Reclassified => conf_crash[e.private].name = OriginalClass
          /\ ScanNames(calls') # <<>> => (Reclassified /\ DirAssigned)
          /\ e.dir # NoDir =>
                /\ ScanNames(calls') = LogNames(conf_crash[e.private].name)
                /\ \A i \in 1..Len(calls') :
                      IsScan(calls'[i]) => calls'[i].p = DirPath(e.dir)
          /\ e.dir = NoDir =>
                /\ ScanNames(calls') = <<>>
                /\ MsgNames(calls') = LogNames(conf_crash[e.private].name)
          /\ e' = e]_vars

\* telemd_send_crash ran after crashlog_send_crash and scanned the
\* directory of the event for both descriptors of its class
C21_Witness ==
    /\ fn = "telemd_send_crash"
    /\ done = {"crashlog", "telemd"}
    /\ e.dir # NoDir
    /\ Derived(calls)
    /\ Len(ScanNames(calls)) = 2
    /\ \E i \in 1..Len(calls) : IsScan(calls[i]) /\ calls[i].p = DirPath(e.dir)

----------------------------------------------------------------------------
(* The getter a handler finds in the log descriptors *)

CrashlogSends ==
    {"crashlog_send_crash", "crashlog_send_info", "crashlog_send_uptime",
     "crashlog_send_reboot", "crashlog_send"}
TelemdSends ==
    {"telemd_send_crash", "telemd_send_info", "telemd_send_uptime",
     "telemd_send_reboot", "telemd_send"}

\* a getter was handed data of the other sender's type
BadData == {i \in 1..Len(calls) : calls[i].r = "bad_data"}

\* C22: whatever events were dispatched before and whichever sender ran
\* last, a handler running inside crashlog_send finds crashlog_get_log in
\* every log descriptor and one inside telemd_send finds telemd_get_log, so
\* no getter is ever handed data of the other type.
C22_OwnGetter ==
    /\ BadData = {}
    /\ fn \in CrashlogSends => \A l \in LogIds : logget[l] = "crashlog_get_log"
    /\ fn \in TelemdSends => \A l \in LogIds : logget[l] = "telemd_get_log"
    /\ (fn \in {"crashlog_send_crash", "crashlog_send_info"} /\
        At(calls, "generate_log_dir") \ Failed("generate_log_dir") # {})
          => GetterRuns = ClassLogs

\* crashlog_send_info collected both descriptors of its class after telemd
\* had handled the same event
C22_Witness ==
    /\ fn = "crashlog_send_info"
    /\ done = {"telemd", "crashlog"}
    /\ Len(ClassLogs) = 2
    /\ GetterRuns = ClassLogs
    /\ keyseq = MaxKeys

----------------------------------------------------------------------------
(* Properties of telemd_send_uptime *)

\* a step in which telemd_send_uptime takes an UPTIME event
UptimeStep ==
    /\ e.event_type = "UPTIME"
    /\ "telemd" \notin done
    /\ "telemd" \in done'

\* the interval index of the hours a state holds
Interval == hours \div atoi(conf_uptime.eventhours)

\* the uptime record was handed to telemd_send_data; get_uptime_string
\* succeeded
SubmittedUptime == At(calls, "tm_create_record") # {}
UptimeRead ==
    At(calls, "get_uptime_string") \ Failed("get_uptime_string") # {}

\* C23: with non-decreasing hours and eventhours > 0, telemd_send_uptime
\* submits only when hours / eventhours >= loop_uptime_event, and never more
\* than one record; passing that test sets loop_uptime_event to
\* hours / eventhours + 1; otherwise it is left alone, so it never
\* decreases; and an event whose interval index is below loop_uptime_event,
\* as a second event of an interval is, submits nothing.
C23_OncePerInterval ==
    [][UptimeStep =>
          /\ hours' >= hours
          /\ atoi(conf_uptime.eventhours) > 0
          /\ SubmittedUptime' =>
                /\ Interval' >= loop_uptime_event
                /\ Cardinality(At(calls, "tm_create_record")') = 1
          /\ (UptimeRead' /\ Interval' >= loop_uptime_event) =>
                loop_uptime_event' = Interval' + 1
          /\ (~UptimeRead' \/ Interval' < loop_uptime_event) =>
                /\ loop_uptime_event' = loop_uptime_event
                /\ ~SubmittedUptime'
          /\ loop_uptime_event' >= loop_uptime_event
          /\ loop_uptime_event' > Interval' \/ ~UptimeRead']_vars

\* an UPTIME event in the second interval, after the record of that
\* interval was due, submits nothing
C23_Witness ==
    /\ fn = "telemd_send_uptime"
    /\ UptimeRead
    /\ Len(calls) = 1
    /\ Interval = 2
    /\ loop_uptime_event = 3

====
